---------------------------- MODULE Spec2Model ----------------------------
(***************************************************************************)
(* A model of the LLM Rank Diagnostic analyzer: the heuristic scorer       *)
(* (server/utils/scorer.js), the crawler (server/utils/scraper.js), the    *)
(* Express analyze route with its cache and relational store, and the      *)
(* Next.js mock analyze route.                                             *)
(*                                                                         *)
(* Strings are sequences of one-character strings, so that length, split,  *)
(* includes and the regular expressions of the scorer are computed on the  *)
(* characters as the JavaScript does.                                      *)
(***************************************************************************)
EXTENDS Integers, Sequences, FiniteSets, TLC

VARIABLES
    \* scorer harness: two invocations of scoreContent
    page,           \* the page handed to the first invocation
    twin,           \* the page handed to the second invocation
    score1,         \* what the first invocation returned (NoScore before)
    score2,         \* what the second invocation returned (NoScore before)
    \* Next.js mock route app/api/analyze: two requests
    mock1,          \* the first request and its response (NoResponse before)
    mock2,          \* the second request and its response (NoResponse before)
    \* Express analyze route
    site,           \* the website the crawler meets
    req,            \* the locals of every request and of its background analysis
    cache,          \* Redis: the entry analysis:<domain> of every domain
    expired,        \* the domains whose cache entry has run out at least once
    pages,          \* table pages
    scores,         \* table scores
    overlays,       \* table overlays
    domains,        \* table domains
    pageSeq,        \* the sequence behind pages.id
    \* one call of a pure function
    fnArgs,         \* the arguments of the call
    fnResult,       \* what the call returned (NoResult before)
    \* the explore page of the Next.js app
    explore         \* the state of ExplorePage, its timers and its iframe

scoreVars == <<page, twin, score1, score2>>
mockVars == <<mock1, mock2>>
apiVars == <<site, req, cache, expired, pages, scores, overlays, domains, pageSeq>>

fnVars == <<fnArgs, fnResult>>

uiVars == <<explore>>

vars == <<scoreVars, mockVars, apiVars, fnVars, uiVars>>

\* the page argument null
NullPage == [kind |-> "null"]
\* no Score returned yet
NoScore == [kind |-> "none"]
\* no response sent yet
NoResponse == [kind |-> "none"]

\* the scorer harness before its first call
IdleScore ==
    /\ page = NullPage
    /\ twin = NullPage
    /\ score1 = NoScore
    /\ score2 = NoScore

\* the mock route before its first request
IdleMock ==
    /\ mock1 = NoResponse
    /\ mock2 = NoResponse

\* the call has not returned
NoResult == [kind |-> "none"]

\* no function is called
IdleFn ==
    /\ fnArgs = [kind |-> "none"]
    /\ fnResult = NoResult

\* the explore page is not open
IdleUi == explore = [kind |-> "none"]

\* the Express route without a site, a request or a stored row
IdleApi ==
    /\ site = [kind |-> "none"]
    /\ req = <<>>
    /\ cache = <<>>
    /\ expired = {}
    /\ pages = <<>>
    /\ scores = <<>>
    /\ overlays = <<>>
    /\ domains = <<>>
    /\ pageSeq = 0

-----------------------------------------------------------------------------
(* Characters and strings                                                  *)

UpperSeq == <<"A","B","C","D","E","F","G","H","I","J","K","L","M",
              "N","O","P","Q","R","S","T","U","V","W","X","Y","Z">>
LowerSeq == <<"a","b","c","d","e","f","g","h","i","j","k","l","m",
              "n","o","p","q","r","s","t","u","v","w","x","y","z">>
UpperCase == {UpperSeq[i] : i \in 1..26}
LowerCase == {LowerSeq[i] : i \in 1..26}
Digits == {"0","1","2","3","4","5","6","7","8","9"}
\* \w of a JavaScript regular expression
WordChars == UpperCase \cup LowerCase \cup Digits \cup {"_"}
\* \s of a JavaScript regular expression, and what trim() removes
WhiteSpace == {" ", "\n", "\t", "\r"}
\* the class [.!?]
Terminators == {".", "!", "?"}

\* String.prototype.toLowerCase, one character
toLowerChar(c) ==
    IF c \in UpperCase
    THEN LowerSeq[CHOOSE i \in 1..26 : UpperSeq[i] = c]
    ELSE c

\* String.prototype.toLowerCase
toLowerCase(s) == [i \in 1..Len(s) |-> toLowerChar(s[i])]

\* String.prototype.includes
includes(s, sub) ==
    \/ Len(sub) = 0
    \/ \E i \in 1..(Len(s) - Len(sub) + 1) :
          /\ s[i] = sub[1]
          /\ SubSeq(s, i, i + Len(sub) - 1) = sub

\* String.prototype.startsWith
startsWith(s, pre) ==
    /\ Len(pre) <= Len(s)
    /\ SubSeq(s, 1, Len(pre)) = pre

\* Math.min
Min(a, b) == IF a < b THEN a ELSE b

RECURSIVE SumOver(_, _)
\* Array.prototype.reduce((sum, x) => sum + f[x], 0) over the elements of a set
SumOver(f, S) ==
    IF S = {} THEN 0
    ELSE LET x == CHOOSE y \in S : TRUE
         IN  f[x] + SumOver(f, S \ {x})

\* The last position of the maximal run of characters of class C that starts at i
RunEnd(s, C, i) ==
    CHOOSE j \in i..Len(s) :
        /\ (j = Len(s) \/ s[j+1] \notin C)
        /\ \A k \in i..j : s[k] \in C

\* The maximal runs of characters of class C in s, as <<first, last>> pairs.
Runs(s, C) ==
    LET starts == {i \in 1..Len(s) : s[i] \in C /\ (i = 1 \/ s[i-1] \notin C)}
    IN  {<<i, RunEnd(s, C, i)>> : i \in starts}

\* The characters of s
CharsOf(s) == {s[i] : i \in 1..Len(s)}

\* n copies of the character c
Rep(c, n) == [i \in 1..n |-> c]

-----------------------------------------------------------------------------
(* server/utils/scorer.js                                                  *)

\* the three characters of the list-marker literal of scoreStructureSemantics
BulletMark == <<"U+00E2", "U+20AC", "U+00A2">>

\* content.split('\n\n').length: a run of k line feeds holds k \div 2
\* separators, taken left to right without overlap
splitParagraphs(content) ==
    LET runs == Runs(content, {"\n"})
        seps == [r \in runs |-> (r[2] - r[1] + 1) \div 2]
    IN  SumOver(seps, runs) + 1

scoreStructureSemantics(content, title) ==
    LET s1 == IF Len(title) > 0 /\ Len(title) > 10 /\ Len(title) < 60 THEN 5 ELSE 0
        paragraphs == splitParagraphs(content)
        s2 == IF paragraphs > 3 THEN 5 ELSE 0
        s3 == IF \/ includes(content, BulletMark)
                 \/ includes(content, <<"-">>)
                 \/ includes(content, <<"1", ".">>)
              THEN 5 ELSE 0
        s4 == IF \/ includes(content, <<"b","e","c","a","u","s","e">>)
                 \/ includes(content, <<"t","h","e","r","e","f","o","r","e">>)
                 \/ includes(content, <<"h","o","w","e","v","e","r">>)
              THEN 5 ELSE 0
        s5 == IF \/ includes(content, <<"i","s"," ","a">>)
                 \/ includes(content, <<"r","e","f","e","r","s"," ","t","o">>)
                 \/ includes(content, <<"m","e","a","n","s">>)
              THEN 5 ELSE 0
    IN  Min(s1 + s2 + s3 + s4 + s5, 25)

\* the words [A-Z][a-z]+ of content that stand between two word boundaries,
\* as <<first, last>> pairs
CapitalizedWords(content) ==
    LET n == Len(content)
    IN  {<<r[1] - 1, r[2]>> : r \in
            {q \in Runs(content, LowerCase) :
                /\ q[1] > 1
                /\ content[q[1] - 1] \in UpperCase
                /\ (q[1] = 2 \/ content[q[1] - 2] \notin WordChars)
                /\ (q[2] = n \/ content[q[2] + 1] \notin WordChars)}}

\* content.match(/\b[A-Z][a-z]+(?:\s+[A-Z][a-z]+)*\b/g).length: a match starts
\* at a capitalized word and greedily takes every capitalized word that
\* follows after white space only, so the matches are counted by their first
\* words
specificTermCount(content) ==
    LET ws == CapitalizedWords(content)
        continued(w) ==
            \E p \in ws :
                /\ p[2] + 1 < w[1]
                /\ \A k \in (p[2] + 1)..(w[1] - 1) : content[k] \in WhiteSpace
    IN  Cardinality({w \in ws : ~continued(w)})

scoreRelevanceIntent(content, title, description) ==
    LET s1 == IF Len(title) > 0 /\ Len(title) > 5 THEN 5 ELSE 0
        s2 == IF Len(description) > 0 /\ Len(description) > 20 THEN 5 ELSE 0
        s3 == IF specificTermCount(content) > 5 THEN 5 ELSE 0
        s4 == IF /\ includes(content, <<"?">>)
                 /\ includes(content, <<"a","n","s","w","e","r">>)
              THEN 5 ELSE 0
        s5 == IF \/ includes(content, <<"h","o","w"," ","t","o">>)
                 \/ includes(content, <<"g","u","i","d","e">>)
                 \/ includes(content, <<"t","u","t","o","r","i","a","l">>)
              THEN 5 ELSE 0
    IN  Min(s1 + s2 + s3 + s4 + s5, 25)

\* content.split(/[.!?]+/).filter(s => s.trim().length > 0): the maximal runs
\* of characters other than . ! ? that hold a character that is not white space
sentencesOf(content) ==
    {r \in Runs(content, CharsOf(content) \ Terminators) :
        \E k \in r[1]..r[2] : content[k] \notin WhiteSpace}

\* content.split(/\s+/).length: one piece more than there are runs of white
\* space (the empty string splits into one empty piece)
wordCount(content) == Cardinality(Runs(content, WhiteSpace)) + 1

\* new Set(content.toLowerCase().split(/\s+/)).size: the distinct pieces; the
\* empty piece is among them when the string is empty or white space leads or
\* trails it
uniqueWordCount(content) ==
    LET lc == toLowerCase(content)
        n == Len(lc)
        pieces == {SubSeq(lc, r[1], r[2]) : r \in Runs(lc, CharsOf(lc) \ WhiteSpace)}
        empty == IF n = 0 \/ lc[1] \in WhiteSpace \/ lc[n] \in WhiteSpace
                 THEN {<<>>} ELSE {}
    IN  Cardinality(pieces \cup empty)

\* content.match(/\b[A-Z]{2,}\b/g).length
technicalTermCount(content) ==
    LET n == Len(content)
    IN  Cardinality({r \in Runs(content, UpperCase) :
            /\ r[2] - r[1] + 1 >= 2
            /\ (r[1] = 1 \/ content[r[1] - 1] \notin WordChars)
            /\ (r[2] = n \/ content[r[2] + 1] \notin WordChars)})

scoreTokenEfficiency(content) ==
    LET s1 == IF Len(content) > 500 /\ Len(content) < 5000 THEN 5 ELSE 0
        sentences == sentencesOf(content)
        lengths == [r \in sentences |-> r[2] - r[1] + 1]
        total == SumOver(lengths, sentences)
        count == Cardinality(sentences)
        \* avgSentenceLength is total / count, NaN when count is 0: a
        \* comparison with NaN is false
        s2 == IF count > 0 /\ total > 20 * count /\ total < 100 * count THEN 5 ELSE 0
        words == wordCount(content)
        uniqueWords == uniqueWordCount(content)
        \* density = uniqueWords / words > 0.3
        s3 == IF 10 * uniqueWords > 3 * words THEN 5 ELSE 0
        s4 == IF technicalTermCount(content) > 2 THEN 5 ELSE 0
    IN  Min(s1 + s2 + s3 + s4, 20)

\* link.includes('http') && !link.includes('localhost')
isExternalLink(link) ==
    /\ includes(link, <<"h","t","t","p">>)
    /\ ~includes(link, <<"l","o","c","a","l","h","o","s","t">>)

scoreLinkGraph(links) ==
    LET s1 == IF Len(links) > 5 THEN 5 ELSE 0
        descriptiveLinks == Cardinality({i \in 1..Len(links) : Len(links[i]) > 10})
        s2 == IF descriptiveLinks > 2 THEN 5 ELSE 0
        externalLinks == Cardinality({i \in 1..Len(links) : isExternalLink(links[i])})
        s3 == IF externalLinks > 1 THEN 5 ELSE 0
    IN  Min(s1 + s2 + s3, 15)

scoreLLMOutputLikelihood(content, title) ==
    LET s1 == IF \/ includes(content, <<"r","e","s","e","a","r","c","h">>)
                 \/ includes(content, <<"s","t","u","d","y">>)
                 \/ includes(content, <<"d","a","t","a">>)
              THEN 5 ELSE 0
        s2 == IF \/ includes(content, <<"a","c","c","o","r","d","i","n","g"," ","t","o">>)
                 \/ includes(content, <<"s","o","u","r","c","e","s">>)
                 \/ includes(content, <<"r","e","f","e","r","e","n","c","e","s">>)
              THEN 5 ELSE 0
        s3 == IF Len(content) > 1000 THEN 5 ELSE 0
    IN  Min(s1 + s2 + s3, 15)

generateHighlights(content, totalScore) ==
    IF totalScore < 50
    THEN <<[start |-> 0, end |-> Min(100, Len(content)), severity |-> "high",
            suggestion |-> "Improve content structure and add more specific information",
            reason |-> "Content lacks clear structure and specific details that LLMs can easily parse",
            element_selector |-> "body"]>>
         \o (IF Len(content) > 200
             THEN <<[start |-> 200, end |-> Min(400, Len(content)), severity |-> "medium",
                     suggestion |-> "Add more context and examples",
                     reason |-> "This section could benefit from additional context and concrete examples",
                     element_selector |-> "p"]>>
             ELSE <<>>)
    ELSE IF totalScore < 75
    THEN <<[start |-> 0, end |-> Min(50, Len(content)), severity |-> "medium",
            suggestion |-> "Consider adding more specific details",
            reason |-> "Content is good but could be more specific for better LLM understanding",
            element_selector |-> "h1"]>>
    ELSE <<>>

SummaryExcellent ==
    "Excellent LLM visibility. Content is well-structured, relevant, and likely to appear in AI responses."
SummaryGood ==
    "Good LLM visibility with room for improvement. Focus on enhancing content structure and relevance."
SummaryModerate ==
    "Moderate LLM visibility. Significant improvements needed in content structure, relevance, and token efficiency."
SummaryLow ==
    "Low LLM visibility. Major improvements required across all scoring dimensions."

generateSummary(totalScore) ==
    IF totalScore >= 80 THEN SummaryExcellent
    ELSE IF totalScore >= 60 THEN SummaryGood
    ELSE IF totalScore >= 40 THEN SummaryModerate
    ELSE SummaryLow

\* a default Score whose total is not the sum of its sub-scores
DefaultScoreRounded ==
    [structure_semantics |-> 10,
     relevance_intent |-> 10,
     token_efficiency |-> 8,
     link_graph |-> 6,
     llm_output_likelihood |-> 6,
     total_score |-> 50,
     summary |-> "Error occurred during scoring",
     highlights |-> <<>>,
     detailed_analysis |-> {}]

\* what scoreContent returns from its catch block
DefaultScore ==
    [structure_semantics |-> 10,
     relevance_intent |-> 10,
     token_efficiency |-> 8,
     link_graph |-> 6,
     llm_output_likelihood |-> 6,
     total_score |-> 40,
     summary |-> "Error occurred during scoring",
     highlights |-> <<>>,
     detailed_analysis |-> {}]

\* The Score that scoreContent builds from the five sub-scores (the total,
\* the highlights, the summary and the detailed analysis).
\* detailed_analysis is the set of its <<key, value>> pairs.
scoreResult(p, links, structureSemantics, relevanceIntent, tokenEfficiency, linkGraph, llmOutputLikelihood) ==
    LET totalScore == structureSemantics + relevanceIntent + tokenEfficiency
                        + linkGraph + llmOutputLikelihood
    IN  [structure_semantics |-> structureSemantics,
         relevance_intent |-> relevanceIntent,
         token_efficiency |-> tokenEfficiency,
         link_graph |-> linkGraph,
         llm_output_likelihood |-> llmOutputLikelihood,
         total_score |-> totalScore,
         summary |-> generateSummary(totalScore),
         highlights |-> generateHighlights(p.content, totalScore),
         detailed_analysis |->
            {<<"content_length", Len(p.content)>>,
             <<"title_length", Len(p.title)>>,
             <<"description_length", Len(p.description)>>,
             <<"link_count", Len(links)>>,
             <<"heading_count", (IF Len(p.h1) > 0 THEN 1 ELSE 0)
                                  + Len(p.h2) + Len(p.h3)>>}]

\* scoreContent with the heading check of scoreStructureSemantics fed from
\* metadata.h1 instead of the title
scoreContentFromHeadings(p) ==
    IF p.kind = "null" \/ p.linksKind = "object"
    THEN DefaultScore
    ELSE LET links == IF p.linksKind = "array" THEN p.links ELSE <<>>
         IN  scoreResult(p, links,
                         scoreStructureSemantics(p.content,
                                                 IF Len(p.h1) > 0 THEN p.h1 ELSE p.title),
                         scoreRelevanceIntent(p.content, p.title, p.description),
                         scoreTokenEfficiency(p.content),
                         scoreLinkGraph(links),
                         scoreLLMOutputLikelihood(p.content, p.title))

\* scoreContent with the read of page.url outside the try block
scoreContentUnguarded(p) ==
    IF p.kind = "null"
    THEN [kind |-> "TypeError"]
    ELSE IF p.linksKind = "object"
    THEN DefaultScore
    ELSE LET links == IF p.linksKind = "array" THEN p.links ELSE <<>>
         IN  scoreResult(p, links,
                         scoreStructureSemantics(p.content, p.title),
                         scoreRelevanceIntent(p.content, p.title, p.description),
                         scoreTokenEfficiency(p.content),
                         scoreLinkGraph(links),
                         scoreLLMOutputLikelihood(p.content, p.title))

\* A page is [kind |-> "null"] or an object with url, title, description,
\* content (each '' when absent) and the metadata fields linksKind ("array",
\* "missing", or "object" for a value that is truthy and no array), links,
\* h1, h2, h3.
scoreContent(p) ==
    IF p.kind = "null"
    THEN DefaultScore      \* page.url throws a TypeError
    ELSE IF p.linksKind = "object"
    THEN DefaultScore      \* links.filter is not a function
    ELSE LET links == IF p.linksKind = "array" THEN p.links ELSE <<>>
         IN  scoreResult(p, links,
                         scoreStructureSemantics(p.content, p.title),
                         scoreRelevanceIntent(p.content, p.title, p.description),
                         scoreTokenEfficiency(p.content),
                         scoreLinkGraph(links),
                         scoreLLMOutputLikelihood(p.content, p.title))

-----------------------------------------------------------------------------
(* URLs.  A URL string is a record: kind "abs" (scheme://host/path), "rel"  *)
(* (a path without scheme and host), "frag" (#...), "mailto", "tel", or     *)
(* "invalid" (a string the URL parser rejects).                            *)

AbsUrl(host, path) == [kind |-> "abs", host |-> host, path |-> path]
RelUrl(path) == [kind |-> "rel", host |-> <<>>, path |-> path]
OtherUrl(kind) == [kind |-> kind, host |-> <<>>, path |-> <<>>]

-----------------------------------------------------------------------------
(* The pages the scorer harness draws from                                  *)

\* how many filler blocks a content holds at most
MaxFill == 2

\* "- because "
ChunkList == <<"-"," ","b","e","c","a","u","s","e"," ">>
\* "it is a\n\nb\n\nc\n\nd " : a definition and four paragraphs
ChunkParagraphs ==
    <<"i","t"," ","i","s"," ","a","\n","\n","b","\n","\n","c","\n","\n","d"," ">>
\* "Alpha Beta, Gamma. Delta; Eps: Zeta! Eta? answer " : six capitalized terms
ChunkTerms ==
    <<"A","l","p","h","a"," ","B","e","t","a",","," ","G","a","m","m","a","."," ",
      "D","e","l","t","a",";"," ","E","p","s",":"," ","Z","e","t","a","!"," ",
      "E","t","a","?"," ","a","n","s","w","e","r"," ">>
\* "guide research sources "
ChunkGuide ==
    <<"g","u","i","d","e"," ","r","e","s","e","a","r","c","h"," ",
      "s","o","u","r","c","e","s"," ">>
\* "AB CD EF. "
ChunkTechnical == <<"A","B"," ","C","D"," ","E","F","."," ">>
\* ten sentences of 49 letters, 510 characters
ChunkFiller ==
    [i \in 1..510 |-> IF i % 51 = 50 THEN "." ELSE IF i % 51 = 0 THEN " " ELSE "x"]

Chunks == <<ChunkList, ChunkParagraphs, ChunkTerms, ChunkGuide, ChunkTechnical>>

RECURSIVE Concat(_)
\* the strings of a sequence joined
Concat(ss) == IF ss = <<>> THEN <<>> ELSE Head(ss) \o Concat(Tail(ss))

\* the chunks picked by a set of indices, in order, then k filler blocks
ContentOf(picked, k) ==
    Concat([i \in 1..Len(Chunks) |-> IF i \in picked THEN Chunks[i] ELSE <<>>])
        \o Concat([i \in 1..k |-> ChunkFiller])

Contents == {ContentOf(picked, k) : picked \in SUBSET (1..Len(Chunks)), k \in 0..MaxFill}

Titles == {<<>>, Rep("t", 8), Rep("t", 15), Rep("t", 60)}
Descriptions == {<<>>, Rep("d", 25)}

LinkShort == <<"/","a">>
LinkExternal ==
    <<"h","t","t","p","s",":","/","/","e","x","t",".","o","r","g","/","p","a","g","e">>
LinkLocal ==
    <<"h","t","t","p",":","/","/","l","o","c","a","l","h","o","s","t","/","p","a","g","e">>
LinkLists ==
    {<<>>,
     [i \in 1..6 |-> LinkShort],
     <<LinkExternal, LinkExternal, LinkLocal, LinkShort, LinkShort, LinkShort>>}

PageOf(content, title, description, linksKind, links) ==
    [kind |-> "object", url |-> AbsUrl("a.com", "/"), title |-> title,
     description |-> description, content |-> content,
     linksKind |-> linksKind, links |-> links,
     h1 |-> <<>>, h2 |-> <<>>, h3 |-> <<>>]

\* every content with the best title, description and links; every title,
\* description and links value with the empty and with the fullest content;
\* and the null page
Pages ==
    {PageOf(c, Rep("t", 15), Rep("d", 25), "array",
            <<LinkExternal, LinkExternal, LinkLocal, LinkShort, LinkShort, LinkShort>>) :
        c \in Contents}
    \cup {PageOf(c, t, d, "array", l) :
            c \in {<<>>, ContentOf(1..Len(Chunks), 1)},
            t \in Titles, d \in Descriptions, l \in LinkLists}
    \cup {PageOf(c, t, <<>>, k, <<>>) :
            c \in {<<>>, ContentOf(1..Len(Chunks), 1)},
            t \in Titles, k \in {"missing", "object"}}
    \cup {NullPage}

\* the pages that agree with p on content, title, description and
\* metadata.links: p itself, p under another URL, p with other headings
SamePage(p) ==
    IF p.kind = "null" THEN {p}
    ELSE {p,
          [p EXCEPT !.url = AbsUrl("a.com", "/about")],
          [p EXCEPT !.h1 = <<"H">>, !.h2 = <<<<"a">>, <<"b">>>>]}

-----------------------------------------------------------------------------
(* app/api/analyze/route.js: the mock analyze route of the Next.js app      *)

\* Math.round(a / b) for a >= 0, b > 0 (round half up)
RoundDiv(a, b) == (2 * a + b) \div (2 * b)

\* Math.random() returns k / RandResolution for a k in 0..RandResolution-1
RandResolution == 2
RandomDraws == 0..(RandResolution - 1)

\* Math.floor(Math.random() * range) + base for the draw k
RandomInt(k, range, base) == (k * range) \div RandResolution + base

\* What a client sends as url or domain: kind "empty" (''), "abs" (a string
\* that starts with http:// or https://), "bare" (host and path without a
\* scheme) or "invalid" (a string the URL parser rejects with or without a
\* scheme prefixed).
UrlInput(kind, host, path) == [kind |-> kind, host |-> host, path |-> path]

UrlInputs ==
    {UrlInput("empty", "", ""),
     UrlInput("invalid", "", ""),
     UrlInput("abs", "a.com", ""),
     UrlInput("bare", "a.com", ""),
     UrlInput("bare", "ab", "")}

\* the characters the client sent
RawString(input) ==
    IF input.kind = "abs" THEN "https://" \o input.host \o input.path
    ELSE input.host \o input.path

\* url.startsWith('http') ? url : 'https://' + url, then a suffix appended
MockPageUrl(url, suffix) == AbsUrl(url.host, url.path \o suffix)

\* POST /api/analyze with body {url}; k1..k5 are the five Math.random() draws
MockPOST(url, k1, k2, k3, k4, k5) ==
    IF url.kind = "empty"
    THEN [status |-> 400, error |-> "URL is required"]
    ELSE IF url.kind = "invalid"
    THEN [status |-> 400, error |-> "Invalid URL format"]
    ELSE IF Len(url.host) < 3
    THEN [status |-> 400, error |-> "Invalid domain"]
    ELSE [status |-> 200,
          domain |-> url.host,
          overallScore |-> RandomInt(k1, 40, 60),
          pagesAnalyzed |-> RandomInt(k2, 5, 3),
          topImprovements |->
            <<"Improve content structure and semantic markup",
              "Enhance relevance and intent clarity",
              "Optimize token efficiency and content density">>,
          pages |->
            <<[id |-> 1, url |-> MockPageUrl(url, ""),
               total_score |-> RandomInt(k3, 30, 70)],
              [id |-> 2, url |-> MockPageUrl(url, "/about"),
               total_score |-> RandomInt(k4, 30, 65)],
              [id |-> 3, url |-> MockPageUrl(url, "/services"),
               total_score |-> RandomInt(k5, 30, 60)]>>]

\* the objective scores the GET handler sets on its three mock pages;
\* fractions are in hundredths, lists are given by their elements or length
MockPages ==
    <<[id |-> 1,
       semanticStructure |-> [score |-> 18, h1Count |-> 1, h2Count |-> 3, h3Count |-> 5,
            semanticTags |-> <<"ul", "ol", "blockquote">>,
            missingElements |-> {"definition lists", "glossary"}],
       schemaValidation |-> [score |-> 12, hasStructuredData |-> TRUE,
            schemaTypes |-> <<"Organization", "WebPage">>,
            canonicalUrl |-> TRUE, lastmod |-> TRUE, sitemapEntry |-> TRUE],
       embeddingClarity |-> [score |-> 14, termConsistency |-> 75, selfContainment |-> 65,
            redundancyScore |-> 70, sections |-> <<80, 70, 60>>],
       gptbotAccessibility |-> [score |-> 13, accessible |-> TRUE, statusCode |-> 200,
            redirects |-> 0, blocks |-> 0],
       freshness |-> [score |-> 7, lastModified |-> TRUE, cacheHeaders |-> 2, age |-> 2],
       llmEchoProbability |-> [score |-> 6, overlapPercentage |-> 45, exampleMatches |-> 2]],
      [id |-> 2,
       semanticStructure |-> [score |-> 15, h1Count |-> 1, h2Count |-> 2, h3Count |-> 3,
            semanticTags |-> <<"ul", "blockquote">>,
            missingElements |-> {"definition lists", "glossary", "internal links"}],
       schemaValidation |-> [score |-> 8, hasStructuredData |-> FALSE,
            schemaTypes |-> <<>>,
            canonicalUrl |-> FALSE, lastmod |-> FALSE, sitemapEntry |-> FALSE],
       embeddingClarity |-> [score |-> 12, termConsistency |-> 60, selfContainment |-> 55,
            redundancyScore |-> 65, sections |-> <<70, 60>>],
       gptbotAccessibility |-> [score |-> 12, accessible |-> TRUE, statusCode |-> 200,
            redirects |-> 0, blocks |-> 0],
       freshness |-> [score |-> 5, lastModified |-> TRUE, cacheHeaders |-> 0, age |-> 30],
       llmEchoProbability |-> [score |-> 4, overlapPercentage |-> 25, exampleMatches |-> 1]],
      [id |-> 3,
       semanticStructure |-> [score |-> 20, h1Count |-> 1, h2Count |-> 4, h3Count |-> 6,
            semanticTags |-> <<"ul", "ol", "table", "blockquote">>,
            missingElements |-> {"glossary"}],
       schemaValidation |-> [score |-> 15, hasStructuredData |-> TRUE,
            schemaTypes |-> <<"Service", "WebPage", "Organization">>,
            canonicalUrl |-> TRUE, lastmod |-> TRUE, sitemapEntry |-> TRUE],
       embeddingClarity |-> [score |-> 16, termConsistency |-> 85, selfContainment |-> 75,
            redundancyScore |-> 80, sections |-> <<90, 80, 70>>],
       gptbotAccessibility |-> [score |-> 14, accessible |-> TRUE, statusCode |-> 200,
            redirects |-> 0, blocks |-> 0],
       freshness |-> [score |-> 8, lastModified |-> TRUE, cacheHeaders |-> 2, age |-> 7],
       llmEchoProbability |-> [score |-> 7, overlapPercentage |-> 60, exampleMatches |-> 3]]>>

\* what the GET handler appends to the normalized domain for each mock page
MockPaths == <<"", "/about", "/services">>

\* page.total_score of the GET handler: the sum of the six category scores
MockTotal(mp) ==
    mp.semanticStructure.score + mp.schemaValidation.score + mp.embeddingClarity.score
        + mp.gptbotAccessibility.score + mp.freshness.score + mp.llmEchoProbability.score

\* GET /api/analyze?domain=
MockGET(domain) ==
    IF domain.kind = "empty"
    THEN [status |-> 400, error |-> "Domain parameter is required"]
    ELSE LET mockPages == [i \in 1..Len(MockPages) |->
                         MockPages[i] @@
                         [url |-> MockPageUrl(domain, MockPaths[i]),
                          total_score |-> MockTotal(MockPages[i])]]
             totals == [i \in 1..Len(mockPages) |-> mockPages[i].total_score]
             totalScore == SumOver(totals, 1..Len(mockPages))
         IN  [status |-> 200,
              domain |-> RawString(domain),
              overallScore |-> RoundDiv(totalScore, Len(mockPages)),
              pagesAnalyzed |-> 3,
              topImprovements |->
                <<"Add structured data (JSON-LD) for better AI understanding",
                  "Improve heading hierarchy consistency across pages",
                  "Include more semantic HTML elements like definition lists and blockquotes",
                  "Ensure GPTBot can access all pages without blocks or redirects",
                  "Add canonical URLs and update lastmod dates regularly",
                  "Optimize content for term consistency and reduce redundancy">>,
              pages |-> mockPages]

InitMock ==
    /\ IdleMock
    /\ IdleScore
    /\ IdleApi
    /\ IdleFn
    /\ IdleUi

\* the exchange of one request: what was asked and what was answered
MockExchange(method, input, response) ==
    [method |-> method, input |-> input, response |-> response]

\* the route answers a POST request
MockHandlePOST ==
    \E url \in UrlInputs, k1, k2, k3, k4, k5 \in RandomDraws :
        LET x == MockExchange("POST", url, MockPOST(url, k1, k2, k3, k4, k5))
        IN  /\ mock2 = NoResponse
            /\ IF mock1 = NoResponse
               THEN mock1' = x /\ mock2' = mock2
               ELSE mock2' = x /\ mock1' = mock1
            /\ UNCHANGED <<scoreVars, apiVars, fnVars, uiVars>>

\* the route answers a GET request
MockHandleGET ==
    \E domain \in UrlInputs \ {UrlInput("invalid", "", "")} :
        LET x == MockExchange("GET", domain, MockGET(domain))
        IN  /\ mock2 = NoResponse
            /\ IF mock1 = NoResponse
               THEN mock1' = x /\ mock2' = mock2
               ELSE mock2' = x /\ mock1' = mock1
            /\ UNCHANGED <<scoreVars, apiVars, fnVars, uiVars>>

NextMock == MockHandlePOST \/ MockHandleGET

SpecMock == InitMock /\ [][NextMock]_vars

-----------------------------------------------------------------------------
(* app/analyze/page.js: the scores the dashboard computes for the selected *)
(* page.  A sub-score may be a multiple of 2.5, so scores are counted in    *)
(* units of 1/PointUnits point.                                             *)

PointUnits == 2

\* n points
Pt(n) == n * PointUnits

Max(a, b) == IF a > b THEN a ELSE b

\* analysisData?.pages?.[selectedPageIndex] when there is no such page
NoSelectedPage == [kind |-> "undefined"]

Categories ==
    <<"semanticStructure", "schemaValidation", "embeddingClarity",
      "gptbotAccessibility", "freshness", "llmEchoProbability">>

\* Math.round(x * k) for a fraction x given in hundredths
RoundTimes(x, k) == Pt(RoundDiv(x * k, 100))

\* Object.values(getSubpointScores(category, page)): the four sub-scores of a
\* category in the order of their keys
getSubpointScores(category, p) ==
    IF p = NoSelectedPage THEN <<>>
    ELSE IF category = "semanticStructure" THEN
        LET c == p.semanticStructure
        IN  <<IF c.h1Count = 1 /\ c.h2Count > 0 THEN Pt(5)
              ELSE IF c.h1Count = 0 THEN 0 ELSE Pt(2),
              Min(Pt(10), (Len(c.semanticTags) * 5 * PointUnits) \div 2),
              IF "definition lists" \in c.missingElements \/ "glossary" \in c.missingElements
              THEN 0 ELSE Pt(5),
              IF "internal links" \in c.missingElements THEN 0 ELSE Pt(5)>>
    ELSE IF category = "schemaValidation" THEN
        LET c == p.schemaValidation
        IN  <<IF c.hasStructuredData THEN Pt(8) ELSE 0,
              IF Len(c.schemaTypes) >= 2 THEN Pt(6)
              ELSE IF Len(c.schemaTypes) > 0 THEN Pt(3) ELSE 0,
              IF c.canonicalUrl THEN Pt(3) ELSE 0,
              IF c.lastmod /\ c.sitemapEntry THEN Pt(3)
              ELSE IF c.lastmod \/ c.sitemapEntry THEN Pt(1) ELSE 0>>
    ELSE IF category = "embeddingClarity" THEN
        LET c == p.embeddingClarity
            n == Len(c.sections)
        IN  <<RoundTimes(c.termConsistency, 6),
              RoundTimes(c.selfContainment, 6),
              RoundTimes(c.redundancyScore, 4),
              IF n > 0
              THEN Pt(RoundDiv(SumOver(c.sections, 1..n) * 4, 100 * n))
              ELSE 0>>
    ELSE IF category = "gptbotAccessibility" THEN
        LET c == p.gptbotAccessibility
        IN  <<IF c.statusCode = 200 THEN Pt(5) ELSE 0,
              IF c.redirects = 0 THEN Pt(3) ELSE Pt(1),
              IF c.blocks = 0 THEN Pt(5) ELSE 0,
              IF c.accessible THEN Pt(2) ELSE 0>>
    ELSE IF category = "freshness" THEN
        LET c == p.freshness
        IN  <<IF c.lastModified THEN Pt(4) ELSE 0,
              IF c.cacheHeaders > 0 THEN Pt(3) ELSE 0,
              IF c.age <= 30 THEN Pt(3) ELSE IF c.age <= 90 THEN Pt(2) ELSE 0,
              IF c.age <= 7 THEN Pt(3) ELSE IF c.age <= 30 THEN Pt(2)
              ELSE IF c.age <= 90 THEN Pt(1) ELSE 0>>
    ELSE IF category = "llmEchoProbability" THEN
        LET c == p.llmEchoProbability
        IN  <<IF c.score >= 3 THEN Pt(4) ELSE IF c.score >= 1 THEN Pt(2) ELSE 0,
              IF c.overlapPercentage >= 50 THEN Pt(3)
              ELSE IF c.overlapPercentage >= 20 THEN Pt(2) ELSE 0,
              IF c.overlapPercentage >= 60 THEN Pt(3)
              ELSE IF c.overlapPercentage >= 30 THEN Pt(2) ELSE 0,
              IF c.exampleMatches >= 2 THEN Pt(2)
              ELSE IF c.exampleMatches > 0 THEN Pt(1) ELSE 0>>
    ELSE <<>>

\* lines 160-164, with the selected page as a parameter
getCategorySubtotal(category, selectedPage) ==
    IF selectedPage = NoSelectedPage THEN 0
    ELSE LET subScores == getSubpointScores(category, selectedPage)
         IN  SumOver(subScores, DOMAIN subScores)

\* lines 167-171
getOverallScore(selectedPage) ==
    IF selectedPage = NoSelectedPage THEN 0
    ELSE SumOver([i \in DOMAIN Categories |->
                     getCategorySubtotal(Categories[i], selectedPage)],
                 DOMAIN Categories)

\* fullMark of the radar chart, by category
fullMark == <<25, 20, 20, 15, 13, 12>>

\* lines 209-245: the radar values, cut to 0..fullMark
radarData(selectedPage) ==
    [i \in DOMAIN Categories |->
        Max(0, Min(Pt(fullMark[i]), getCategorySubtotal(Categories[i], selectedPage)))]

-----------------------------------------------------------------------------
(* server/utils/scraper.js: URLs, documents and link discovery.  In this    *)
(* part a URL record carries its host and its path as character sequences.  *)

Scheme == <<"h","t","t","p","s",":","/","/">>
HostA == <<"a",".","c","o","m">>
HostB == <<"b",".","c","o","m">>
HostWww == <<"w","w","w",".","a",".","c","o","m">>
Root == <<"/">>

DigitSeq == <<"0","1","2","3","4","5","6","7","8","9">>
\* the path /p<i> of the i-th subpage of a site, i < 100
PathOf(i) ==
    <<"/","p">> \o (IF i < 10 THEN <<DigitSeq[i + 1]>>
               ELSE <<DigitSeq[(i \div 10) + 1], DigitSeq[(i % 10) + 1]>>)

\* no href attribute, no sitemap URL, no base URL
NoHref == OtherUrl("none")

\* the characters of an href attribute or of a <loc> text
HrefString(h) ==
    CASE h.kind = "abs" -> Scheme \o h.host \o h.path
      [] h.kind = "rel" -> h.path
      [] h.kind = "frag" -> <<"#","t","o","p">>
      [] h.kind = "mailto" -> <<"m","a","i","l","t","o",":","t","e","a","m","@","a",".","c","o","m">>
      [] h.kind = "tel" -> <<"t","e","l",":","1","2","3","4","5">>
      [] h.kind = "invalid" -> <<"h","t","t","p",":","/","/">>
      [] OTHER -> <<>>

\* the pathname of a parsed URL: an empty path becomes /
normalizePath(path) == IF path = <<>> THEN Root ELSE path

\* new URL(href, base), or new URL(href) when base is NoHref: ok is FALSE
\* when the constructor throws, else url is the parsed URL (its .href)
newURL(href, base) ==
    CASE href.kind = "abs" ->
            [ok |-> TRUE, url |-> AbsUrl(href.host, normalizePath(href.path))]
      [] href.kind \in {"mailto", "tel"} ->
            [ok |-> TRUE, url |-> href]
      [] href.kind = "rel" /\ base.kind = "abs" ->
            [ok |-> TRUE, url |-> AbsUrl(base.host, normalizePath(href.path))]
      [] href.kind = "frag" /\ base.kind = "abs" ->
            [ok |-> TRUE, url |-> AbsUrl(base.host, normalizePath(base.path))]
      [] OTHER ->
            [ok |-> FALSE, url |-> href]

\* Set.prototype.add on a Set kept in insertion order
addLink(links, u) ==
    IF \E i \in 1..Len(links) : links[i] = u THEN links ELSE Append(links, u)

\* the $('a[href]').each callback run over the anchors of the seed page
RECURSIVE internalFromAnchors(_, _, _)
internalFromAnchors(anchors, url, links) ==
    IF anchors = <<>> THEN links
    ELSE LET href == HrefString(Head(anchors))
             fullUrl == newURL(Head(anchors), url)
             kept == /\ href # <<>>
                     /\ ~startsWith(href, <<"#">>)
                     /\ ~startsWith(href, <<"m","a","i","l","t","o",":">>)
                     /\ ~startsWith(href, <<"t","e","l",":">>)
                     /\ fullUrl.ok
                     /\ fullUrl.url.host = newURL(url, NoHref).url.host
         IN  internalFromAnchors(Tail(anchors), url,
                                 IF kept THEN addLink(links, fullUrl.url) ELSE links)

\* the loop over the <loc> entries without the hostname comparison
RECURSIVE internalFromSitemapUnfiltered(_, _, _)
internalFromSitemapUnfiltered(locs, domain, links) ==
    IF locs = <<>> THEN links
    ELSE LET sitemapUrl == Head(locs)
             parsed == newURL(sitemapUrl, NoHref)
         IN  IF HrefString(sitemapUrl) = <<>>
             THEN internalFromSitemapUnfiltered(Tail(locs), domain, links)
             ELSE IF ~parsed.ok THEN links
             ELSE internalFromSitemapUnfiltered(Tail(locs), domain,
                                                addLink(links, sitemapUrl))

\* the sitemap$('loc').each callback run over the <loc> entries; a <loc>
\* that new URL rejects throws out of the loop and leaves the later entries
\* unread
RECURSIVE internalFromSitemap(_, _, _)
internalFromSitemap(locs, domain, links) ==
    IF locs = <<>> THEN links
    ELSE LET sitemapUrl == Head(locs)
             parsed == newURL(sitemapUrl, NoHref)
         IN  IF HrefString(sitemapUrl) = <<>>
             THEN internalFromSitemap(Tail(locs), domain, links)
             ELSE IF ~parsed.ok THEN links
             ELSE internalFromSitemap(Tail(locs), domain,
                    IF parsed.url.host = domain
                    THEN addLink(links, sitemapUrl) ELSE links)

\* the three locations tried when the seed page declares no sitemap
commonSitemaps == <<<<"/","s","i","t","e","m","a","p",".","x","m","l">>, <<"/","s","i","t","e","m","a","p","_","i","n","d","e","x",".","x","m","l">>, <<"/","s","i","t","e","m","a","p","/","s","i","t","e","m","a","p",".","x","m","l">>>>

\* sitemapUrl after lines 28-53: the href of the page's link rel=sitemap,
\* else the first common location that answered 200 (probe; 0 when none did)
locateSitemap(doc, url, probe) ==
    IF HrefString(doc.sitemapLink) # <<>> THEN doc.sitemapLink
    ELSE IF probe > 0 THEN AbsUrl(newURL(url, NoHref).url.host, commonSitemaps[probe])
    ELSE NoHref

\* Array.from(internalLinks).slice(0, 10)
PageLimit == 10

\* urlsToScrape: the first PageLimit internal links with the seed put in front
urlsToScrapeOf(url, internalLinks) ==
    <<url>> \o SubSeq(internalLinks, 1, Min(Len(internalLinks), PageLimit))

\* String.prototype.trim
trim(s) ==
    LET inked == {i \in 1..Len(s) : s[i] \notin WhiteSpace}
    IN  IF inked = {} THEN <<>>
        ELSE SubSeq(s, CHOOSE i \in inked : \A j \in inked : i <= j,
                       CHOOSE i \in inked : \A j \in inked : j <= i)

\* .replace(/\s+/g, ' '): every run of white space becomes one space
collapseWhiteSpace(s) ==
    LET marked == [i \in 1..Len(s) |->
                     [c |-> s[i],
                      first |-> (i = 1 \/ s[i - 1] \notin WhiteSpace)]]
        keep(m) == m.c \notin WhiteSpace \/ m.first
        kept == SelectSeq(marked, keep)
    IN  [i \in 1..Len(kept) |-> IF kept[i].c \in WhiteSpace THEN " " ELSE kept[i].c]

\* .substring(0, 10000)
ContentLimit == 10000

\* cleanContent of lines 115-119 (the second replace finds no run of
\* newlines once every white space is a single space)
cleanContent(mainContent) ==
    LET t == trim(collapseWhiteSpace(mainContent))
    IN  SubSeq(t, 1, Min(Len(t), ContentLimit))

\* What the browser returns for a URL.  A document carries the text of its
\* title element, of its h1, h2, h3 elements, its two description meta
\* contents ('' when absent), the text of its main/article region and of its
\* body, its anchors and its link rel=sitemap (NoHref when absent); markup
\* names the serialized document that page.content() returns.
EmptyDoc ==
    [markup |-> "empty", titleTag |-> <<>>, h1 |-> <<>>, h2 |-> <<>>, h3 |-> <<>>,
     metaDescription |-> <<>>, ogDescription |-> <<>>,
     main |-> <<>>, body |-> <<>>, anchors |-> <<>>, images |-> <<>>,
     sitemapLink |-> NoHref]

ArticleDoc ==
    [EmptyDoc EXCEPT !.markup = "article",
                     !.h1 = <<<<" ","A","b","o","u","t"," ","U","s"," ">>>>,
                     !.ogDescription = <<"A","b","o","u","t"," ","t","h","e"," ","t","e","a","m"," ","o","f"," ","A","c","m","e",".">>,
                     !.body = <<"\n"," ","A","b","o","u","t"," ","t","h","e"," "," ","s","t","u","d","y","."," ","\n">>]

HomeDoc(s) ==
    [EmptyDoc EXCEPT !.markup = "home",
                     !.titleTag = <<" ","A","c","m","e"," ","W","i","d","g","e","t","s"," ","H","o","m","e"," ">>,
                     !.h1 = <<<<"A","c","m","e">>>>,
                     !.h2 = <<<<" ","G","u","i","d","e"," ">>, <<"D","a","t","a">>>>,
                     !.metaDescription = <<"W","i","d","g","e","t","s"," ","f","o","r"," ","e","v","e","r","y"," ","p","u","r","p","o","s","e">>,
                     !.main = <<"A","c","m","e"," ","i","s"," ","a"," ","g","u","i","d","e",".","\n","\n","\n"," "," ","I","t"," "," ","u","s","e","s"," ","d","a","t","a"," ","-"," ","b","e","c","a","u","s","e",".","\t">>,
                     !.body = <<"m","e","n","u"," ","A","c","m","e"," ","i","s"," ","a"," ","g","u","i","d","e","."," ","f","o","o","t","e","r">>,
                     !.anchors = s.anchors,
                     !.sitemapLink = s.sitemapLink]

\* a site: the anchors and the sitemap link of its home page, the common
\* location at which it serves a sitemap (0: none) and the <loc> entries
SpecialAnchors ==
    <<OtherUrl("frag"), OtherUrl("mailto"), OtherUrl("tel"), OtherUrl("invalid"),
      AbsUrl(HostB, PathOf(1)), AbsUrl(HostWww, Root),
      RelUrl(Root), AbsUrl(HostA, PathOf(1))>>

SiteLocs ==
    <<AbsUrl(HostA, <<"/","s","1">>), AbsUrl(HostB, <<"/","s","1">>), AbsUrl(HostB, <<>>),
      AbsUrl(HostA, <<>>), OtherUrl("mailto"), RelUrl(<<"/","s","2">>),
      AbsUrl(HostA, <<"/","s","3">>)>>

Site(n, specials, sitemap) ==
    [anchors |-> (IF specials THEN SpecialAnchors ELSE <<>>)
                    \o [i \in 1..n |-> RelUrl(PathOf(i))],
     sitemapLink |-> CASE sitemap = "linked" -> AbsUrl(HostA, <<"/","m","a","p",".","x","m","l">>)
                       [] sitemap = "relative" -> RelUrl(<<"/","m","a","p",".","x","m","l">>)
                       [] OTHER -> NoHref,
     sitemapAt |-> IF sitemap = "probed" THEN 2 ELSE 0,
     locs |-> IF sitemap = "none" THEN <<>> ELSE SiteLocs]

SitemapKinds == {"none", "linked", "relative", "probed"}

\* the sites with at most n subpages linked from the home page
Sites(n) ==
    {Site(k, specials, sitemap) :
        k \in 0..n, specials \in BOOLEAN, sitemap \in SitemapKinds}

\* the document served at a URL of the site: the home page at / , an
\* article at /p1, /p3, ..., and a page without any text elsewhere
Doc(s, u) ==
    LET path == normalizePath(u.path)
    IN  IF path = Root THEN HomeDoc(s)
        ELSE IF \E i \in 1..99 : i % 2 = 1 /\ path = PathOf(i) THEN ArticleDoc
        ELSE EmptyDoc

\* pageData of lines 106-136 for the document loaded at pageUrl
ExtractPage(pageUrl, doc) ==
    LET title == IF trim(doc.titleTag) # <<>> THEN trim(doc.titleTag)
                 ELSE IF doc.h1 = <<>> THEN <<>> ELSE trim(doc.h1[1])
        description == IF doc.metaDescription # <<>> THEN doc.metaDescription
                       ELSE doc.ogDescription
        mainContent == IF doc.main # <<>> THEN doc.main ELSE doc.body
    IN  [kind |-> "object",
         url |-> pageUrl,
         title |-> title,
         description |-> description,
         html |-> doc.markup,
         content |-> cleanContent(mainContent),
         linksKind |-> "array",
         links |-> [i \in 1..Len(doc.anchors) |-> HrefString(doc.anchors[i])],
         h1 |-> trim(Concat(doc.h1)),
         h2 |-> [i \in 1..Len(doc.h2) |-> trim(doc.h2[i])],
         h3 |-> [i \in 1..Len(doc.h3) |-> trim(doc.h3[i])],
         images |-> doc.images]

-----------------------------------------------------------------------------
(* server/routes/analyze.js: the Express analyze route, its cache (Redis)   *)
(* and its store (PostgreSQL, database/schema.sql)                          *)

\* the two requests the route receives, numbered as they arrive
Requests == {1, 2}

\* how many of the page navigations of one crawl may fail
MaxFailures == 2

\* the hostnames clients ask about
Domains == {HostA, HostB}

\* what a client posts as url: nothing, a string that no URL parser takes,
\* a host without a scheme, or an absolute URL (with and without the
\* trailing slash)
PostInputs ==
    {UrlInput("empty", <<>>, <<>>),
     UrlInput("invalid", <<>>, <<>>),
     UrlInput("bare", HostA, <<>>),
     UrlInput("abs", HostA, <<>>),
     UrlInput("abs", HostA, Root)}

\* totalScore / 0 under Math.round
NaN == -1
\* what JSON.stringify writes for NaN
JsonNull == -2

\* no row, no result
NoRow == [kind |-> "none"]

\* the locals of one request: its handler and the background analysis the
\* handler may start.  crawls counts the scrapeWebsite invocations, dbOps the
\* queries sent to the store; after is the set of requests for the same
\* domain whose analysis had completed when this one arrived, afterAborted
\* the set of those whose analysis had been aborted by then; delay is the
\* time in milliseconds that timers have made the crawl wait since its last
\* page.goto.
IdleRequest ==
    [pc |-> "idle", method |-> "none", url |-> NoHref, domain |-> <<>>,
     response |-> NoResponse, after |-> {},
     domainData |-> NoRow, result |-> NoRow,
     crawls |-> 0, dbOps |-> 0, browser |-> "none",
     internalLinks |-> <<>>, urlsToScrape |-> <<>>, next |-> 1, failures |-> 0,
     scrapedPages |-> <<>>, returned |-> FALSE,
     pageIds |-> <<>>, i |-> 1, totalScore |-> 0, score |-> NoScore,
     pageScores |-> <<>>, delay |-> 0, afterAborted |-> {}]

\* res.status(status).json(body)
Response(status, body) == [kind |-> "json", status |-> status, body |-> body]

\* JSON.stringify of an analysis result: the numbers, strings and arrays
\* are written as they are, NaN is written as null
JSONstringify(result) ==
    [json |-> [result EXCEPT !.overallScore = IF @ = NaN THEN JsonNull ELSE @]]

JSONparse(text) == text.json

\* Math.round(totalScore / n)
averageOf(totalScore, n) == IF n = 0 THEN NaN ELSE RoundDiv(totalScore, n)

\* the catalogue of generateTopImprovements, one text per dimension of the
\* scorer in the order of scoreContent
improvements ==
    <<"Improve content structure and semantic markup",
      "Enhance relevance and intent clarity",
      "Optimize token efficiency and content density",
      "Strengthen internal linking and crawlability",
      "Increase likelihood of LLM output inclusion">>

\* improvements.slice(0, 3): pageScores is not read
generateTopImprovements(pageScores) == SubSeq(improvements, 1, 3)

\* SELECT * FROM domains WHERE domain = $1
domainRows(d) == SelectSeq(domains, LAMBDA row : row.domain = d)

\* SELECT p.*, s.* FROM pages p LEFT JOIN scores s ON p.id = s.page_id
\* WHERE p.domain = $1: a row carries the columns of the page and, when the
\* page has a score, those of the score, which replace the page's columns of
\* the same name (id)
joinedRows(d) ==
    LET ps == SelectSeq(pages, LAMBDA p : p.domain = d)
    IN  [k \in 1..Len(ps) |->
            LET ss == SelectSeq(scores, LAMBDA s : s.page_id = ps[k].id)
            IN  IF ss = <<>> THEN ps[k] ELSE ss[1] @@ ps[k]]

\* the CHECK constraints of the scores table
scoreChecks(s) ==
    /\ s.structure_semantics >= 0 /\ s.structure_semantics <= 25
    /\ s.relevance_intent >= 0 /\ s.relevance_intent <= 25
    /\ s.token_efficiency >= 0 /\ s.token_efficiency <= 20
    /\ s.link_graph >= 0 /\ s.link_graph <= 15
    /\ s.llm_output_likelihood >= 0 /\ s.llm_output_likelihood <= 15
    /\ s.total_score >= 0 /\ s.total_score <= 100

\* the INTEGER type and the CHECK constraint of domains.overall_score
overallScoreChecks(v) == v # NaN /\ v >= 0 /\ v <= 100

\* the requests for domain d whose background analysis has completed
Completed(d) == {q \in Requests : req[q].pc = "done" /\ req[q].domain = d}

\* the requests for domain d whose analysis ended in the catch of line 544
Aborted(d) == {q \in Requests : req[q].pc = "failed" /\ req[q].domain = d}

\* one field group of request r replaced
Step(r, fields) == req' = [req EXCEPT ![r] = fields @@ @]

otherVars == <<scoreVars, mockVars, fnVars, uiVars>>
storeVars == <<cache, expired, pages, scores, overlays, domains, pageSeq>>

\* ---- router.post('/') ----

\* lines 399-415: the body is read and validated, the cache is asked
PostArrive(r) ==
    /\ req[r].pc = "idle"
    /\ \A q \in Requests : q < r => req[q].pc # "idle"
    /\ \E url \in PostInputs :
         IF url.kind = "empty"
         THEN Step(r, [pc |-> "responded", method |-> "POST", url |-> url,
                       response |-> Response(400, [error |-> "URL is required"])])
         ELSE IF ~newURL(url, NoHref).ok
         THEN Step(r, [pc |-> "responded", method |-> "POST", url |-> url,
                       response |-> Response(400, [error |-> "Invalid URL format"])])
         ELSE Step(r, [pc |-> "received", method |-> "POST", url |-> url,
                       domain |-> newURL(url, NoHref).url.host,
                       after |-> Completed(newURL(url, NoHref).url.host),
                       afterAborted |-> Aborted(newURL(url, NoHref).url.host)])
    /\ UNCHANGED <<site, storeVars, otherVars>>

\* the handler without its cache check
PostCheckCacheSkipped(r) ==
    /\ req[r].pc = "received" /\ req[r].method = "POST"
    /\ Step(r, [pc |-> "lookup"])
    /\ UNCHANGED <<site, storeVars, otherVars>>

\* lines 418-422: the cache answers
PostCheckCache(r) ==
    /\ req[r].pc = "received" /\ req[r].method = "POST"
    /\ LET cachedResult == cache[req[r].domain]
       IN  IF cachedResult # NoRow
           THEN Step(r, [pc |-> "responded",
                         response |-> Response(200, JSONparse(cachedResult))])
           ELSE Step(r, [pc |-> "lookup"])
    /\ UNCHANGED <<site, storeVars, otherVars>>

\* lines 425-430 and 451-457: the domains table answers
PostCheckDomain(r) ==
    /\ req[r].pc = "lookup" /\ req[r].method = "POST"
    /\ LET existingDomain == domainRows(req[r].domain)
       IN  IF Len(existingDomain) > 0
           THEN Step(r, [pc |-> "found", domainData |-> existingDomain[1],
                         dbOps |-> req[r].dbOps + 1])
           ELSE Step(r, [pc |-> "timer", dbOps |-> req[r].dbOps + 1,
                         response |-> Response(200,
                            [analysisId |-> r, domain |-> req[r].domain,
                             status |-> "analyzing",
                             message |-> "Analysis started. This may take a few minutes."])])
    /\ UNCHANGED <<site, storeVars, otherVars>>

\* lines 431-443: the pages of the domain are read and the result is built
PostLoadPages(r) ==
    /\ req[r].pc = "found" /\ req[r].method = "POST"
    /\ Step(r, [pc |-> "store", dbOps |-> req[r].dbOps + 1,
                result |-> [analysisId |-> r,
                            domain |-> req[r].domain,
                            overallScore |-> req[r].domainData.overall_score,
                            pagesAnalyzed |-> req[r].domainData.pages_analyzed,
                            topImprovements |-> req[r].domainData.top_improvements,
                            pages |-> joinedRows(req[r].domain)]])
    /\ UNCHANGED <<site, storeVars, otherVars>>

\* lines 446-447: the result is cached and returned
PostCacheResult(r) ==
    /\ req[r].pc = "store" /\ req[r].method = "POST"
    /\ cache' = [cache EXCEPT ![req[r].domain] = JSONstringify(req[r].result)]
    /\ Step(r, [pc |-> "responded", response |-> Response(200, req[r].result)])
    /\ UNCHANGED <<site, expired, pages, scores, overlays, domains, pageSeq, otherVars>>

\* ---- router.get('/:domain') ----

\* lines 555-557
GetArrive(r) ==
    /\ req[r].pc = "idle"
    /\ \A q \in Requests : q < r => req[q].pc # "idle"
    /\ \E d \in Domains :
         Step(r, [pc |-> "received", method |-> "GET", domain |-> d,
                  after |-> Completed(d)])
    /\ UNCHANGED <<site, storeVars, otherVars>>

\* the handler with the domains table read before the cache is asked
GetCheckCacheAfterLookup(r) ==
    /\ req[r].pc = "received" /\ req[r].method = "GET"
    /\ LET cachedResult == cache[req[r].domain]
       IN  IF cachedResult # NoRow
           THEN Step(r, [pc |-> "responded", dbOps |-> req[r].dbOps + 1,
                         response |-> Response(200, JSONparse(cachedResult))])
           ELSE Step(r, [pc |-> "lookup"])
    /\ UNCHANGED <<site, storeVars, otherVars>>

\* lines 559-563
GetCheckCache(r) ==
    /\ req[r].pc = "received" /\ req[r].method = "GET"
    /\ LET cachedResult == cache[req[r].domain]
       IN  IF cachedResult # NoRow
           THEN Step(r, [pc |-> "responded",
                         response |-> Response(200, JSONparse(cachedResult))])
           ELSE Step(r, [pc |-> "lookup"])
    /\ UNCHANGED <<site, storeVars, otherVars>>

\* lines 566-573
GetCheckDomain(r) ==
    /\ req[r].pc = "lookup" /\ req[r].method = "GET"
    /\ LET domainResult == domainRows(req[r].domain)
       IN  IF Len(domainResult) = 0
           THEN Step(r, [pc |-> "responded", dbOps |-> req[r].dbOps + 1,
                         response |-> Response(404, [error |-> "Domain not found"])])
           ELSE Step(r, [pc |-> "found", domainData |-> domainResult[1],
                         dbOps |-> req[r].dbOps + 1])
    /\ UNCHANGED <<site, storeVars, otherVars>>

\* lines 575-587
GetLoadPages(r) ==
    /\ req[r].pc = "found" /\ req[r].method = "GET"
    /\ Step(r, [pc |-> "store", dbOps |-> req[r].dbOps + 1,
                result |-> [domain |-> req[r].domain,
                            overallScore |-> req[r].domainData.overall_score,
                            pagesAnalyzed |-> req[r].domainData.pages_analyzed,
                            topImprovements |-> req[r].domainData.top_improvements,
                            pages |-> joinedRows(req[r].domain)]])
    /\ UNCHANGED <<site, storeVars, otherVars>>

\* lines 590-591
GetCacheResult(r) ==
    /\ req[r].pc = "store" /\ req[r].method = "GET"
    /\ cache' = [cache EXCEPT ![req[r].domain] = JSONstringify(req[r].result)]
    /\ Step(r, [pc |-> "responded", response |-> Response(200, req[r].result)])
    /\ UNCHANGED <<site, expired, pages, scores, overlays, domains, pageSeq, otherVars>>

\* ---- scrapeWebsite(url), called by the background analysis ----

\* analyze.js line 462 and scraper.js lines 10-25: the timer fires, the
\* browser is launched and the seed is loaded; a seed that fails to load
\* throws out of scrapeWebsite (the browser stays open) and ends the analysis
StartScrape(r) ==
    /\ req[r].pc = "timer"
    /\ \E loaded \in BOOLEAN :
         Step(r, [pc |-> IF loaded THEN "discover" ELSE "failed",
                  crawls |-> req[r].crawls + 1, browser |-> "open", delay |-> 0])
    /\ UNCHANGED <<site, storeVars, otherVars>>

\* discovery with the sitemap request outside its try block: a sitemap that
\* cannot be fetched throws out of scrapeWebsite
DiscoverUnguarded(r) ==
    /\ req[r].pc = "discover"
    /\ \E probeOk, fetchOk \in BOOLEAN :
         LET url == req[r].url
             doc == Doc(site, url)
             domain == newURL(url, NoHref).url.host
             sitemapUrl == locateSitemap(doc, url, IF probeOk THEN site.sitemapAt ELSE 0)
             anchored == internalFromAnchors(doc.anchors, url, <<>>)
             fetched == sitemapUrl.kind = "abs" /\ fetchOk
             internalLinks ==
                 IF fetched
                 THEN internalFromSitemap(site.locs, domain, anchored)
                 ELSE anchored
         IN  IF HrefString(sitemapUrl) # <<>> /\ ~fetched
             THEN Step(r, [pc |-> "failed"])
             ELSE Step(r, [pc |-> "scraping", internalLinks |-> internalLinks,
                           urlsToScrape |-> urlsToScrapeOf(url, internalLinks),
                           next |-> 1, scrapedPages |-> <<>>])
    /\ UNCHANGED <<site, storeVars, otherVars>>

\* scraper.js lines 27-94: the sitemap is located (probeOk: the common
\* locations can be reached) and fetched (fetchOk), the internal links are
\* collected and the list to scrape is cut
Discover(r) ==
    /\ req[r].pc = "discover"
    /\ \E probeOk, fetchOk \in BOOLEAN :
         LET url == req[r].url
             doc == Doc(site, url)
             domain == newURL(url, NoHref).url.host
             sitemapUrl == locateSitemap(doc, url, IF probeOk THEN site.sitemapAt ELSE 0)
             anchored == internalFromAnchors(doc.anchors, url, <<>>)
             internalLinks ==
                 IF sitemapUrl.kind = "abs" /\ fetchOk
                 THEN internalFromSitemap(site.locs, domain, anchored)
                 ELSE anchored
         IN  Step(r, [pc |-> "scraping", internalLinks |-> internalLinks,
                      urlsToScrape |-> urlsToScrapeOf(url, internalLinks),
                      next |-> 1, scrapedPages |-> <<>>])
    /\ UNCHANGED <<site, storeVars, otherVars>>

\* setTimeout(resolve, 1000) at the end of the try block of the page loop
RequestDelay == 1000

\* scraper.js lines 97-146: one turn of the page loop, which starts with a
\* page.goto; a navigation that fails is logged and the loop goes on without
\* the delay, which is the last statement of the try block
ScrapePage(r) ==
    /\ req[r].pc = "scraping"
    /\ req[r].next <= Len(req[r].urlsToScrape)
    /\ LET pageUrl == req[r].urlsToScrape[req[r].next]
       IN  \/ Step(r, [next |-> req[r].next + 1,
                       scrapedPages |-> Append(req[r].scrapedPages,
                                               ExtractPage(pageUrl, Doc(site, pageUrl))),
                       delay |-> RequestDelay])
           \/ /\ req[r].failures < MaxFailures
              /\ Step(r, [next |-> req[r].next + 1,
                          failures |-> req[r].failures + 1, delay |-> 0])
    /\ UNCHANGED <<site, storeVars, otherVars>>

\* scraper.js lines 148-151: the browser is closed, the pages are returned
CloseBrowser(r) ==
    /\ req[r].pc = "scraping"
    /\ req[r].next > Len(req[r].urlsToScrape)
    /\ Step(r, [pc |-> IF req[r].scrapedPages = <<>> THEN "aggregate" ELSE "storing",
                browser |-> "closed", returned |-> TRUE, i |-> 1])
    /\ UNCHANGED <<site, storeVars, otherVars>>

\* ---- the background analysis of router.post('/') ----

\* lines 465-473: one INSERT INTO pages; url is UNIQUE, and a violation
\* throws into the catch of line 543
InsertPage(r) ==
    /\ req[r].pc = "storing"
    /\ LET p == req[r].scrapedPages[req[r].i]
           id == pageSeq + 1
           last == req[r].i = Len(req[r].scrapedPages)
       IN  /\ pageSeq' = id
           /\ IF \E k \in 1..Len(pages) : pages[k].url = p.url
              THEN /\ Step(r, [pc |-> "failed", dbOps |-> req[r].dbOps + 1])
                   /\ pages' = pages
              ELSE /\ pages' = Append(pages,
                                  [id |-> id, url |-> p.url, domain |-> req[r].domain,
                                   title |-> p.title, description |-> p.description,
                                   html |-> p.html,
                                   metadata |-> [title |-> p.title,
                                                 description |-> p.description,
                                                 h1 |-> p.h1, h2 |-> p.h2, h3 |-> p.h3,
                                                 links |-> p.links, images |-> p.images]])
                   /\ Step(r, [pc |-> IF last THEN "scoring" ELSE "storing",
                               i |-> IF last THEN 1 ELSE req[r].i + 1,
                               pageIds |-> Append(req[r].pageIds, id),
                               dbOps |-> req[r].dbOps + 1])
    /\ UNCHANGED <<site, cache, expired, scores, overlays, domains, otherVars>>

\* lines 479-502: a page is scored and its score is stored
ScorePage(r) ==
    /\ req[r].pc = "scoring"
    /\ LET score == scoreContent(req[r].scrapedPages[req[r].i])
       IN  IF scoreChecks(score)
           THEN /\ scores' = Append(scores,
                      [id |-> Len(scores) + 1,
                       page_id |-> req[r].pageIds[req[r].i],
                       structure_semantics |-> score.structure_semantics,
                       relevance_intent |-> score.relevance_intent,
                       token_efficiency |-> score.token_efficiency,
                       link_graph |-> score.link_graph,
                       llm_output_likelihood |-> score.llm_output_likelihood,
                       total_score |-> score.total_score,
                       summary |-> score.summary,
                       detailed_analysis |-> score.detailed_analysis])
                /\ Step(r, [pc |-> "overlay", score |-> score,
                            totalScore |-> req[r].totalScore + score.total_score,
                            dbOps |-> req[r].dbOps + 1])
           ELSE /\ scores' = scores
                /\ Step(r, [pc |-> "failed", dbOps |-> req[r].dbOps + 1])
    /\ UNCHANGED <<site, cache, expired, pages, overlays, domains, pageSeq, otherVars>>

\* the scoring loop left after its first page: the aggregate is taken while
\* pages of the batch are still unscored
InsertOverlayStreaming(r) ==
    /\ req[r].pc = "overlay"
    /\ LET p == req[r].scrapedPages[req[r].i]
           pageId == req[r].pageIds[req[r].i]
       IN  /\ overlays' = Append(overlays,
                            [page_id |-> pageId, highlights |-> req[r].score.highlights])
           /\ Step(r, [pc |-> "aggregate",
                       i |-> req[r].i + 1,
                       dbOps |-> req[r].dbOps + 1,
                       pageScores |-> Append(req[r].pageScores,
                            [pageId |-> pageId, url |-> p.url, title |-> p.title,
                             score |-> req[r].score.total_score,
                             summary |-> req[r].score.summary])])
    /\ UNCHANGED <<site, cache, expired, pages, scores, domains, pageSeq, otherVars>>

\* lines 505-518: the highlights are stored (an empty list is truthy too)
\* and the page joins pageScores
InsertOverlay(r) ==
    /\ req[r].pc = "overlay"
    /\ LET p == req[r].scrapedPages[req[r].i]
           pageId == req[r].pageIds[req[r].i]
           last == req[r].i = Len(req[r].scrapedPages)
       IN  /\ overlays' = Append(overlays,
                            [page_id |-> pageId, highlights |-> req[r].score.highlights])
           /\ Step(r, [pc |-> IF last THEN "aggregate" ELSE "scoring",
                       i |-> req[r].i + 1,
                       dbOps |-> req[r].dbOps + 1,
                       pageScores |-> Append(req[r].pageScores,
                            [pageId |-> pageId, url |-> p.url, title |-> p.title,
                             score |-> req[r].score.total_score,
                             summary |-> req[r].score.summary])])
    /\ UNCHANGED <<site, cache, expired, pages, scores, domains, pageSeq, otherVars>>

\* lines 520-539: the average is taken and the domain row is inserted;
\* domain is UNIQUE and overall_score is a range-checked INTEGER
InsertDomain(r) ==
    /\ req[r].pc = "aggregate"
    /\ LET averageScore == averageOf(req[r].totalScore, Len(req[r].scrapedPages))
           topImprovements == generateTopImprovements(req[r].pageScores)
       IN  IF overallScoreChecks(averageScore) /\ domainRows(req[r].domain) = <<>>
           THEN /\ domains' = Append(domains,
                        [domain |-> req[r].domain,
                         overall_score |-> averageScore,
                         pages_analyzed |-> Len(req[r].scrapedPages),
                         top_improvements |-> topImprovements])
                /\ Step(r, [pc |-> "caching", dbOps |-> req[r].dbOps + 1,
                            result |-> [analysisId |-> r,
                                        domain |-> req[r].domain,
                                        overallScore |-> averageScore,
                                        pagesAnalyzed |-> Len(req[r].scrapedPages),
                                        topImprovements |-> topImprovements,
                                        pages |-> req[r].pageScores]])
           ELSE /\ domains' = domains
                /\ Step(r, [pc |-> "failed", dbOps |-> req[r].dbOps + 1])
    /\ UNCHANGED <<site, cache, expired, pages, scores, overlays, pageSeq, otherVars>>

\* line 541: the result is cached for an hour
CacheAnalysis(r) ==
    /\ req[r].pc = "caching"
    /\ cache' = [cache EXCEPT ![req[r].domain] = JSONstringify(req[r].result)]
    /\ Step(r, [pc |-> "done"])
    /\ UNCHANGED <<site, expired, pages, scores, overlays, domains, pageSeq, otherVars>>

\* the hour of a cache entry runs out (setEx ..., 3600, ...)
Expire(d) ==
    /\ cache[d] # NoRow
    /\ cache' = [cache EXCEPT ![d] = NoRow]
    /\ expired' = expired \cup {d}
    /\ UNCHANGED <<site, req, pages, scores, overlays, domains, pageSeq, otherVars>>

\* how many subpages the home page of a site links, where requests run
\* side by side
ApiLinks == 1
\* ... and where one crawl runs alone
CrawlLinks == 11

\* the sites met where requests run side by side: no sitemap, and either
\* plain links to subpages or the special anchors alone (among them a link
\* to the home page itself)
ApiSites ==
    {Site(n, FALSE, "none") : n \in 0..ApiLinks} \cup {Site(0, TRUE, "none")}

EmptyStore ==
    /\ cache = [d \in Domains |-> NoRow]
    /\ expired = {}
    /\ pages = <<>>
    /\ scores = <<>>
    /\ overlays = <<>>
    /\ domains = <<>>
    /\ pageSeq = 0

Init ==
    /\ site \in ApiSites
    /\ req = [r \in Requests |-> IdleRequest]
    /\ EmptyStore
    /\ IdleScore
    /\ IdleMock
    /\ IdleFn
    /\ IdleUi

Handle(r) ==
    \/ PostArrive(r) \/ PostCheckCache(r) \/ PostCheckDomain(r)
    \/ PostLoadPages(r) \/ PostCacheResult(r)
    \/ GetArrive(r) \/ GetCheckCache(r) \/ GetCheckDomain(r)
    \/ GetLoadPages(r) \/ GetCacheResult(r)

Scrape(r) == StartScrape(r) \/ Discover(r) \/ ScrapePage(r) \/ CloseBrowser(r)

Analyze(r) ==
    \/ InsertPage(r) \/ ScorePage(r) \/ InsertOverlay(r)
    \/ InsertDomain(r) \/ CacheAnalysis(r)

Next ==
    \/ \E r \in Requests : Handle(r) \/ Scrape(r) \/ Analyze(r)
    \/ \E d \in Domains : Expire(d)

Spec == Init /\ [][Next]_vars

\* one crawl alone: the analysis of request 1 for a seed on HostA, from the
\* moment its timer fires until scrapeWebsite returns
InitCrawl ==
    /\ site \in Sites(CrawlLinks)
    /\ \E path \in {<<>>, Root} :
         req = [r \in Requests |->
                  IF r = 1
                  THEN [pc |-> "timer", method |-> "POST",
                        url |-> UrlInput("abs", HostA, path), domain |-> HostA,
                        dbOps |-> 1] @@ IdleRequest
                  ELSE IdleRequest]
    /\ EmptyStore
    /\ IdleScore
    /\ IdleMock
    /\ IdleFn
    /\ IdleUi

NextCrawl == \E r \in Requests : Scrape(r)

SpecCrawl == InitCrawl /\ [][NextCrawl]_vars

-----------------------------------------------------------------------------
(* server/routes/score.js and server/routes/overlay.js: the page-level      *)
(* routes, read by a client while one analysis writes the store             *)

\* how many page-level reads the client sends
MaxReads == 3

\* the page ids a client asks about: those one analysis may give out, and
\* one more
ReadIds == 1..(ApiLinks + 2)

\* `score:${pageId}` and `overlay:${pageId}`, pageId < 10
ScoreKey(pageId) == <<"s","c","o","r","e",":">> \o <<DigitSeq[pageId + 1]>>
OverlayKey(pageId) == <<"o","v","e","r","l","a","y",":">> \o <<DigitSeq[pageId + 1]>>

PageKeys == {ScoreKey(id) : id \in ReadIds} \cup {OverlayKey(id) : id \in ReadIds}

\* a text or JSONB column of a LEFT JOIN that found no row (null); a numeric
\* column without a row is JsonNull
SqlNull == [kind |-> "null"]
\* a JSONB column that holds a value
Jsonb(value) == [kind |-> "jsonb", value |-> value]
\* value || fallback, value a number or null
OrElse(value, fallback) == IF value = JsonNull \/ value = 0 THEN fallback ELSE value

\* JSON.stringify of a page-level response body: strings, integers, arrays
\* and null are written as they are
stringifyBody(body) == [json |-> body]

\* SELECT ... FROM pages p LEFT JOIN scores s ON p.id = s.page_id
\* WHERE p.id = $1 (created_at is not kept by the store of the model)
scoreJoin(pageId) ==
    LET ps == SelectSeq(pages, LAMBDA p : p.id = pageId)
    IN  [k \in 1..Len(ps) |->
            LET ss == SelectSeq(scores, LAMBDA s : s.page_id = pageId)
                num(name) == IF ss = <<>> THEN JsonNull ELSE ss[1][name]
                col(name) == IF ss = <<>> THEN SqlNull ELSE ss[1][name]
            IN  [id |-> ps[k].id, url |-> ps[k].url, title |-> ps[k].title,
                 description |-> ps[k].description, metadata |-> ps[k].metadata,
                 structure_semantics |-> num("structure_semantics"),
                 relevance_intent |-> num("relevance_intent"),
                 token_efficiency |-> num("token_efficiency"),
                 link_graph |-> num("link_graph"),
                 llm_output_likelihood |-> num("llm_output_likelihood"),
                 total_score |-> num("total_score"),
                 summary |-> col("summary"),
                 detailed_analysis |-> col("detailed_analysis")]]

\* SELECT ... FROM pages p LEFT JOIN overlays o ON p.id = o.page_id
\* WHERE p.id = $1
overlayJoin(pageId) ==
    LET ps == SelectSeq(pages, LAMBDA p : p.id = pageId)
    IN  [k \in 1..Len(ps) |->
            LET os == SelectSeq(overlays, LAMBDA o : o.page_id = pageId)
            IN  [id |-> ps[k].id, url |-> ps[k].url, title |-> ps[k].title,
                 html |-> ps[k].html, metadata |-> ps[k].metadata,
                 highlights |-> IF os = <<>> THEN SqlNull
                                ELSE Jsonb(os[1].highlights)]]

\* score.js lines 30-49: the response body
scoreBreakdown(pageData) ==
    [pageId |-> pageData.id, url |-> pageData.url, title |-> pageData.title,
     description |-> pageData.description, metadata |-> pageData.metadata,
     scores |-> [structure_semantics |-> OrElse(pageData.structure_semantics, 0),
                 relevance_intent |-> OrElse(pageData.relevance_intent, 0),
                 token_efficiency |-> OrElse(pageData.token_efficiency, 0),
                 link_graph |-> OrElse(pageData.link_graph, 0),
                 llm_output_likelihood |-> OrElse(pageData.llm_output_likelihood, 0),
                 total_score |-> OrElse(pageData.total_score, 0)],
     summary |-> pageData.summary,
     detailed_analysis |-> pageData.detailed_analysis]

\* overlay.js lines 34-41: the response body (an empty array is truthy)
overlayData(pageData) ==
    [pageId |-> pageData.id, url |-> pageData.url, title |-> pageData.title,
     html |-> pageData.html, metadata |-> pageData.metadata,
     highlights |-> IF pageData.highlights = SqlNull THEN <<>>
                    ELSE pageData.highlights.value]

\* the client has sent no page-level read yet
NoRead == [fn |-> "none", pageId |-> 0, reads |-> 0]

\* GET /api/score/:pageId: the cache is asked first; a page that
\* is found is formatted, cached for an hour and sent
GetScore ==
    /\ fnArgs.reads < MaxReads
    /\ \E pageId \in ReadIds :
         /\ fnArgs' = [fn |-> "score", pageId |-> pageId, reads |-> fnArgs.reads + 1]
         /\ IF cache[ScoreKey(pageId)] # NoRow
            THEN /\ fnResult' = Response(200, JSONparse(cache[ScoreKey(pageId)]))
                 /\ cache' = cache
            ELSE IF scoreJoin(pageId) = <<>>
            THEN /\ fnResult' = Response(404, [error |-> "Page not found"])
                 /\ cache' = cache
            ELSE /\ fnResult' = Response(200, scoreBreakdown(scoreJoin(pageId)[1]))
                 /\ cache' = [cache EXCEPT
                                ![ScoreKey(pageId)] =
                                    stringifyBody(scoreBreakdown(scoreJoin(pageId)[1]))]
    /\ UNCHANGED <<site, req, expired, pages, scores, overlays, domains, pageSeq,
                   scoreVars, mockVars, uiVars>>

\* GET /api/overlay/:pageId: the cache is asked first; a page that
\* is found is formatted, cached for an hour and sent
GetOverlay ==
    /\ fnArgs.reads < MaxReads
    /\ \E pageId \in ReadIds :
         /\ fnArgs' = [fn |-> "overlay", pageId |-> pageId, reads |-> fnArgs.reads + 1]
         /\ IF cache[OverlayKey(pageId)] # NoRow
            THEN /\ fnResult' = Response(200, JSONparse(cache[OverlayKey(pageId)]))
                 /\ cache' = cache
            ELSE IF overlayJoin(pageId) = <<>>
            THEN /\ fnResult' = Response(404, [error |-> "Page not found"])
                 /\ cache' = cache
            ELSE /\ fnResult' = Response(200, overlayData(overlayJoin(pageId)[1]))
                 /\ cache' = [cache EXCEPT
                                ![OverlayKey(pageId)] =
                                    stringifyBody(overlayData(overlayJoin(pageId)[1]))]
    /\ UNCHANGED <<site, req, expired, pages, scores, overlays, domains, pageSeq,
                   scoreVars, mockVars, uiVars>>

InitReads ==
    /\ site \in ApiSites
    /\ \E path \in {<<>>, Root} :
         req = [r \in Requests |->
                  IF r = 1
                  THEN [pc |-> "timer", method |-> "POST",
                        url |-> UrlInput("abs", HostA, path), domain |-> HostA,
                        dbOps |-> 1] @@ IdleRequest
                  ELSE IdleRequest]
    /\ cache = [k \in Domains \cup PageKeys |-> NoRow]
    /\ expired = {}
    /\ pages = <<>>
    /\ scores = <<>>
    /\ overlays = <<>>
    /\ domains = <<>>
    /\ pageSeq = 0
    /\ fnArgs = NoRead
    /\ fnResult = NoResponse
    /\ IdleScore
    /\ IdleMock
    /\ IdleUi

NextReads ==
    \/ \E r \in Requests : Scrape(r) \/ Analyze(r)
    \/ GetScore
    \/ GetOverlay

SpecReads == InitReads /\ [][NextReads]_vars

-----------------------------------------------------------------------------
(* One page through the pipeline: the extraction of scrapeWebsite, then     *)
(* scoreContent as the analysis calls it                                    *)

\* the documents the browser may return: the home page of a site without
\* and with the special anchors, its main region holding any of the contents
\* of the scorer harness (list marks, blank lines between paragraphs,
\* capitalized terms, filler)
ExtractDocs ==
    {[HomeDoc(s) EXCEPT !.main = c] :
        c \in Contents, s \in {Site(0, FALSE, "none"), Site(0, TRUE, "none")}}

\* scraper.js lines 100-136 and analyze.js line 481 for one document
pipeline(doc) ==
    LET pageData == ExtractPage(AbsUrl(HostA, Root), doc)
    IN  [page |-> pageData, score |-> scoreContent(pageData)]

InitExtract ==
    /\ fnArgs \in {[fn |-> "pipeline", doc |-> doc] : doc \in ExtractDocs}
    /\ fnResult = NoResult
    /\ IdleScore
    /\ IdleMock
    /\ IdleApi
    /\ IdleUi

ExtractAndScore ==
    /\ fnResult = NoResult
    /\ fnResult' = pipeline(fnArgs.doc)
    /\ UNCHANGED <<fnArgs, scoreVars, mockVars, apiVars, uiVars>>

NextExtract == ExtractAndScore

SpecExtract == InitExtract /\ [][NextExtract]_vars

-----------------------------------------------------------------------------
(* Scorer harness                                                           *)

InitScore ==
    /\ page \in Pages
    /\ twin \in SamePage(page)
    /\ score1 = NoScore
    /\ score2 = NoScore
    /\ IdleMock
    /\ IdleApi
    /\ IdleFn
    /\ IdleUi

\* the first invocation of scoreContent
ScoreFirst ==
    /\ score1 = NoScore
    /\ score1' = scoreContent(page)
    /\ UNCHANGED <<page, twin, score2, mockVars, apiVars, fnVars, uiVars>>

\* a second invocation, after the first has returned
ScoreAgain ==
    /\ score1 # NoScore
    /\ score2 = NoScore
    /\ score2' = scoreContent(twin)
    /\ UNCHANGED <<page, twin, score1, mockVars, apiVars, fnVars, uiVars>>

NextScore == ScoreFirst \/ ScoreAgain

SpecScore == InitScore /\ [][NextScore]_vars

-----------------------------------------------------------------------------
(* generateHighlights called on its own                                     *)

\* the largest total a Score can carry (CHECK total_score <= 100)
MaxTotal == 100

\* content lengths on both sides of every offset of generateHighlights
HighlightLengths == {0, 1, 49, 50, 51, 99, 100, 101, 200, 201, 399, 400, 401}

InitHighlights ==
    /\ fnArgs \in {[fn |-> "generateHighlights", content |-> Rep("x", n), totalScore |-> t] :
                    n \in HighlightLengths, t \in 0..MaxTotal}
    /\ fnResult = NoResult
    /\ IdleScore
    /\ IdleMock
    /\ IdleApi
    /\ IdleUi

CallGenerateHighlights ==
    /\ fnResult = NoResult
    /\ fnResult' = [highlights |-> generateHighlights(fnArgs.content, fnArgs.totalScore)]
    /\ UNCHANGED <<fnArgs, scoreVars, mockVars, apiVars, uiVars>>

NextHighlights == CallGenerateHighlights

SpecHighlights == InitHighlights /\ [][NextHighlights]_vars

-----------------------------------------------------------------------------
(* The dashboard renders the scores of one page record                      *)

\* the longest list of semantic tags of a page record
MaxTags == 4

SemanticProfiles ==
    {[score |-> 0, h1Count |-> h, h2Count |-> 1, h3Count |-> 0,
      semanticTags |-> Rep("ul", n), missingElements |-> m] :
        h \in {0, 1}, n \in 0..MaxTags,
        m \in {{}, {"definition lists", "internal links"}}}

SchemaProfiles ==
    {[score |-> 0, hasStructuredData |-> b, schemaTypes |-> Rep("WebPage", n),
      canonicalUrl |-> b, lastmod |-> b, sitemapEntry |-> TRUE] :
        b \in BOOLEAN, n \in {0, 2}}

EmbeddingProfiles ==
    {[score |-> 0, termConsistency |-> x, selfContainment |-> x,
      redundancyScore |-> x, sections |-> Rep(x, 2)] : x \in {0, 75, 100}}

AccessProfiles ==
    {[score |-> 0, accessible |-> b, statusCode |-> IF b THEN 200 ELSE 403,
      redirects |-> IF b THEN 0 ELSE 1, blocks |-> IF b THEN 0 ELSE 1] : b \in BOOLEAN}

FreshnessProfiles ==
    {[score |-> 0, lastModified |-> TRUE, cacheHeaders |-> 2, age |-> 2],
     [score |-> 0, lastModified |-> TRUE, cacheHeaders |-> 0, age |-> 30],
     [score |-> 0, lastModified |-> FALSE, cacheHeaders |-> 0, age |-> 91]}

EchoProfiles ==
    {[score |-> 0, overlapPercentage |-> 0, exampleMatches |-> 0],
     [score |-> 6, overlapPercentage |-> 45, exampleMatches |-> 2],
     [score |-> 3, overlapPercentage |-> 60, exampleMatches |-> 2]}

\* the page records the dashboard is given: the three pages of the mock
\* route, a missing page, and records put together from the profiles
DashboardPages ==
    LET mock == MockGET(UrlInput("abs", "a.com", "")).pages
    IN  {mock[i] : i \in DOMAIN mock} \cup {NoSelectedPage} \cup
        {[id |-> 0, semanticStructure |-> a, schemaValidation |-> b,
          embeddingClarity |-> c, gptbotAccessibility |-> d, freshness |-> e,
          llmEchoProbability |-> f] :
            a \in SemanticProfiles, b \in SchemaProfiles, c \in EmbeddingProfiles,
            d \in AccessProfiles, e \in FreshnessProfiles, f \in EchoProfiles}

InitDashboard ==
    /\ fnArgs \in {[fn |-> "dashboard", selectedPage |-> p] : p \in DashboardPages}
    /\ fnResult = NoResult
    /\ IdleScore
    /\ IdleMock
    /\ IdleApi
    /\ IdleUi

\* one rendering: the six subtotals, the overall score and the radar values
RenderDashboard ==
    /\ fnResult = NoResult
    /\ fnResult' =
         [subtotals |-> [i \in DOMAIN Categories |->
                            getCategorySubtotal(Categories[i], fnArgs.selectedPage)],
          overall |-> getOverallScore(fnArgs.selectedPage),
          radar |-> radarData(fnArgs.selectedPage)]
    /\ UNCHANGED <<fnArgs, scoreVars, mockVars, apiVars, uiVars>>

NextDashboard == RenderDashboard

SpecDashboard == InitDashboard /\ [][NextDashboard]_vars

-----------------------------------------------------------------------------
(* app/explore/[domain]/page.js: ExplorePage shows a page of the domain in  *)
(* an iframe and injects a marker for each of its highlights.  A document   *)
(* is a sequence of elements, the first of them body; an element has a tag, *)
(* its class list, its data-highlight-index and its inline nodes in         *)
(* document order.  An inline node is a text node together with the         *)
(* llm-overlay spans around it, outermost first.                            *)

TextNode(text) == [text |-> text, spans |-> <<>>]

Element(tag, text) ==
    [tag |-> tag, classes |-> {}, highlightIndex |-> 0, owner |-> 0,
     nodes |-> IF text = <<>> THEN <<>> ELSE <<TextNode(text)>>]

\* the document of about:blank, which a new iframe holds until its page loads
BlankDoc == <<Element("body", <<>>)>>

\* the documents of the pages of the domain
PageDocs ==
    <<  <<Element("body", <<>>), Element("h1", <<"A","b">>),
          Element("p", <<"c","d","e">>), Element("p", <<"f","g">>)>>,
        <<Element("body", <<>>), Element("h1", <<"H","i">>),
          Element("div", <<"j","k","l">>)>>  >>

RECURSIVE FlattenFrom(_, _)
\* the concatenation of the sequences seqs[k..]
FlattenFrom(seqs, k) ==
    IF k > Len(seqs) THEN <<>> ELSE seqs[k] \o FlattenFrom(seqs, k + 1)

\* the text nodes of a document in the order a TreeWalker meets them, each
\* as <<element, node>>
textNodeRefs(doc) ==
    FlattenFrom([e \in 1..Len(doc) |-> [n \in 1..Len(doc[e].nodes) |-> <<e, n>>]], 1)

\* the text of the document: its text nodes joined
textContent(doc) ==
    LET refs == textNodeRefs(doc)
    IN  FlattenFrom([k \in 1..Len(refs) |-> doc[refs[k][1]].nodes[refs[k][2]].text], 1)

\* currentPos when the walker is at the k-th text node
currentPosAt(doc, k) ==
    LET refs == textNodeRefs(doc)
    IN  SumOver([j \in 1..Len(refs) |-> Len(doc[refs[j][1]].nodes[refs[j][2]].text)],
                1..(k - 1))

\* doc.querySelectorAll('.llm-overlay').forEach(el => el.remove()): the spans
\* go, and with them the text inside them
removeOverlays(doc) ==
    [e \in 1..Len(doc) |->
        [doc[e] EXCEPT !.nodes = SelectSeq(@, LAMBDA node : node.spans = <<>>)]]

\* lines 640-655: every element the selector of the highlight matches gets
\* the classes llm-element-highlight and the severity, and the index
markElements(doc, highlight, index, owner) ==
    [e \in 1..Len(doc) |->
        IF highlight.element_selector = doc[e].tag
        THEN [doc[e] EXCEPT !.classes = @ \cup {"llm-element-highlight", highlight.severity},
                            !.highlightIndex = index, !.owner = owner]
        ELSE doc[e]]

\* lines 658-703: the text node that holds position start is split and the
\* part up to end (or to the end of the node) is wrapped in a span; the walk
\* does not go on from the replaced node
wrapText(doc, highlight, index, owner) ==
    LET refs == textNodeRefs(doc)
        hits == {k \in 1..Len(refs) :
                    /\ currentPosAt(doc, k) <= highlight.start
                    /\ currentPosAt(doc, k) + Len(doc[refs[k][1]].nodes[refs[k][2]].text)
                          > highlight.start}
    IN  IF hits = {} THEN doc
        ELSE LET k == CHOOSE h \in hits : TRUE
                 e == refs[k][1]
                 n == refs[k][2]
                 node == doc[e].nodes[n]
                 startOffset == highlight.start - currentPosAt(doc, k)
                 endOffset == Min(highlight.end - currentPosAt(doc, k), Len(node.text))
                 piece(a, b, spans) ==
                     IF a > b THEN <<>>
                     ELSE <<[text |-> SubSeq(node.text, a, b), spans |-> spans]>>
                 span == [index |-> index, severity |-> highlight.severity, owner |-> owner]
             IN  IF startOffset < endOffset
                 THEN [doc EXCEPT ![e].nodes =
                          SubSeq(@, 1, n - 1)
                          \o piece(1, startOffset, node.spans)
                          \o piece(startOffset + 1, endOffset, Append(node.spans, span))
                          \o piece(endOffset + 1, Len(node.text), node.spans)
                          \o SubSeq(@, n + 1, Len(@))]
                 ELSE doc

RECURSIVE forEachHighlight(_, _, _, _)
\* currentPage.highlights.forEach((highlight, index) => ...), from index on
\* (indices from 0 as in the code)
forEachHighlight(doc, highlights, index, owner) ==
    IF index >= Len(highlights) THEN doc
    ELSE LET highlight == highlights[index + 1]
         IN  forEachHighlight(
                 wrapText(markElements(doc, highlight, index, owner), highlight, index, owner),
                 highlights, index + 1, owner)

\* injectOverlays as the closure of a render that saw currentPage and
\* showOverlays; doc is iframe.contentDocument at the time of the call.
\* owner names the page whose highlights the click handlers of the markers
\* hold.
injectOverlays(currentPage, showOverlays, doc) ==
    IF currentPage = NoSelectedPage \/ ~showOverlays THEN doc
    ELSE forEachHighlight(removeOverlays(doc), currentPage.highlights, 0, currentPage.pageId)

\* the last offset a highlight starts at
MaxOffset == 4

\* the longest highlight
MaxSpan == 3

\* pending timers of handleIframeLoad
MaxTimers == 2

Selectors == {"h1", "p", "div", "body"}

\* the highlights the overlay data may hold; the severity goes with the
\* selector as in the mock data
HighlightsOf ==
    {[start |-> a, end |-> a + n,
      severity |-> IF sel \in {"h1", "body"} THEN "medium" ELSE "high",
      element_selector |-> sel] :
        a \in 0..MaxOffset, n \in {1, MaxSpan}, sel \in Selectors}

\* GET /api/overlay?domain=: the pages of the domain with their highlights
OverlayData ==
    {<<[pageId |-> 1, highlights |-> h1], [pageId |-> 2, highlights |-> <<h2>>]>> :
        h1 \in {<<a>> : a \in HighlightsOf}
               \cup {<<a, b>> : a \in {x \in HighlightsOf : x.start = 0},
                                b \in {x \in HighlightsOf : x.end = x.start + 1}},
        h2 \in {x \in HighlightsOf : x.start = 0 /\ x.end = MaxSpan}}

\* a new iframe for page i (key={iframeKey} src={currentPage.url})
NewFrame(i) == [page |-> i, loaded |-> FALSE, doc |-> BlankDoc]

\* overlayData has arrived, the first page is current and its iframe mounted
InitExplore ==
    /\ \E data \in OverlayData :
          explore = [kind |-> "open", pages |-> data, currentPage |-> 1,
                     showOverlays |-> TRUE, frame |-> NewFrame(1), timers |-> <<>>]
    /\ IdleScore
    /\ IdleMock
    /\ IdleApi
    /\ IdleFn

\* lines 811-818: a page is clicked in the sidebar; the iframe is remounted
SelectPage ==
    \E i \in 1..Len(explore.pages) :
        /\ explore' = [explore EXCEPT !.currentPage = i, !.frame = NewFrame(i)]
        /\ UNCHANGED <<scoreVars, mockVars, apiVars, fnVars>>

\* the switch that sets showOverlays
ToggleOverlays ==
    /\ explore' = [explore EXCEPT !.showOverlays = ~@]
    /\ UNCHANGED <<scoreVars, mockVars, apiVars, fnVars>>

\* lines 706-708: the page of the iframe has loaded; handleIframeLoad of the
\* latest render starts a timer with the injectOverlays of that render
IframeLoad ==
    /\ ~explore.frame.loaded
    /\ Len(explore.timers) < MaxTimers
    /\ explore' = [explore EXCEPT
                      !.frame.loaded = TRUE,
                      !.frame.doc = PageDocs[explore.frame.page],
                      !.timers = Append(@, [currentPage |-> explore.pages[explore.currentPage],
                                            showOverlays |-> explore.showOverlays])]
    /\ UNCHANGED <<scoreVars, mockVars, apiVars, fnVars>>

\* a timer runs out: its injectOverlays works on the document the iframe
\* holds now
TimerFires ==
    /\ explore.timers # <<>>
    /\ LET closure == Head(explore.timers)
       IN  explore' = [explore EXCEPT
                          !.timers = Tail(@),
                          !.frame.doc = injectOverlays(closure.currentPage,
                                                       closure.showOverlays, @)]
    /\ UNCHANGED <<scoreVars, mockVars, apiVars, fnVars>>

NextExplore == SelectPage \/ ToggleOverlays \/ IframeLoad \/ TimerFires

SpecExplore == InitExplore /\ [][NextExplore]_vars

-----------------------------------------------------------------------------
(* Properties of the scorer                                                 *)

\* the sub-scores, total, summary and highlights of a Score
Observable(r) ==
    <<r.structure_semantics, r.relevance_intent, r.token_efficiency, r.link_graph,
      r.llm_output_likelihood, r.total_score, r.summary, r.highlights>>

\* p and q are the same page input: the same content, title, description
\* and metadata.links
SameScoredFields(p, q) ==
    /\ p.kind = q.kind
    /\ p.kind = "object" =>
          /\ p.content = q.content
          /\ p.title = q.title
          /\ p.description = q.description
          /\ p.linksKind = q.linksKind
          /\ p.links = q.links

\* C1: two invocations of scoreContent on the same page (same content, title,
\* description and metadata.links, whatever the URL and the headings) return
\* the same sub-scores, total_score, summary and highlights.
C1_ScoreDeterministic ==
    (score1 # NoScore /\ score2 # NoScore /\ SameScoredFields(page, twin))
        => Observable(score1) = Observable(score2)

\* both invocations have returned, on pages that differ only in what the
\* scorer must not depend on, and on the normal path
C1_Witness ==
    /\ score1 # NoScore
    /\ score2 # NoScore
    /\ page # twin
    /\ SameScoredFields(page, twin)
    /\ score1.detailed_analysis # score2.detailed_analysis
    /\ score1.total_score = 100

\* C3: every Score that scoreContent returns, on the normal and on the error
\* path, has each sub-score between 0 and its maximum (25, 25, 20, 15, 15), a
\* total that is the sum of the sub-scores, and a total between 0 and 100.
C3_ScoreBounds ==
    \A r \in {score1, score2} \ {NoScore} :
        /\ r.structure_semantics \in 0..25
        /\ r.relevance_intent \in 0..25
        /\ r.token_efficiency \in 0..20
        /\ r.link_graph \in 0..15
        /\ r.llm_output_likelihood \in 0..15
        /\ r.total_score = r.structure_semantics + r.relevance_intent
                + r.token_efficiency + r.link_graph + r.llm_output_likelihood
        /\ r.total_score \in 0..100

\* the first invocation took the error path (a page whose metadata.links is
\* no array) and the second, on the same page, returned the same default
C3_Witness ==
    /\ page.kind = "object"
    /\ page.linksKind = "object"
    /\ score1 = DefaultScore
    /\ score2 # NoScore

\* p has an empty title, description and content and no links
EmptyPage(p) ==
    /\ p.kind = "object"
    /\ p.title = <<>>
    /\ p.description = <<>>
    /\ p.content = <<>>
    /\ p.linksKind \in {"array", "missing"}
    /\ p.links = <<>>

\* C10: for the empty page scoreContent returns every sub-score 0, total 0,
\* the low-visibility summary and at least one highlight of severity high.
C10_EmptyPageScoresZero ==
    (score1 # NoScore /\ EmptyPage(page)) =>
        /\ score1.structure_semantics = 0
        /\ score1.relevance_intent = 0
        /\ score1.token_efficiency = 0
        /\ score1.link_graph = 0
        /\ score1.llm_output_likelihood = 0
        /\ score1.total_score = 0
        /\ score1.summary = SummaryLow
        /\ \E i \in 1..Len(score1.highlights) : score1.highlights[i].severity = "high"

\* the pages on which a statement of scoreContent throws
ThrowsInside(p) == p.kind = "null" \/ p.linksKind = "object"

\* C13: what scoreContent returns is always a Score that passes the checks
\* of the scores table, never an error, and for a page on which a statement
\* throws inside it is the fixed default Score.
C13_FailsSoft ==
    score1 # NoScore =>
          /\ DOMAIN score1 = DOMAIN DefaultScore
          /\ scoreChecks(score1)
          /\ ThrowsInside(page) =>
                score1 = [structure_semantics |-> 10,
                          relevance_intent |-> 10,
                          token_efficiency |-> 8,
                          link_graph |-> 6,
                          llm_output_likelihood |-> 6,
                          total_score |-> 40,
                          summary |-> "Error occurred during scoring",
                          highlights |-> <<>>,
                          detailed_analysis |-> {}]

C13_Witness ==
    /\ page = NullPage
    /\ score1 # NoScore
    /\ score1.total_score = 40
    /\ score1.highlights = <<>>

\* C11: every highlight that generateHighlights returns has
\* 0 <= start < end <= length of the content.
C11_AnchorsValid ==
    fnResult # NoResult =>
        \A i \in 1..Len(fnResult.highlights) :
            /\ 0 <= fnResult.highlights[i].start
            /\ fnResult.highlights[i].start < fnResult.highlights[i].end
            /\ fnResult.highlights[i].end <= Len(fnArgs.content)

\* the severities of a list of highlights
Severities(highlights) == {highlights[n].severity : n \in 1..Len(highlights)}

\* C22: the highlights of a Score answer to its total: below 50 at least one
\* of severity high, from 50 to 74 one or more of severity medium only, from
\* 75 on none.
C22_HighlightsFollowTotal ==
    score1 # NoScore =>
        /\ score1.total_score < 50 => "high" \in Severities(score1.highlights)
        /\ (score1.total_score >= 50 /\ score1.total_score < 75)
              => Severities(score1.highlights) = {"medium"}
        /\ score1.total_score >= 75 => score1.highlights = <<>>

-----------------------------------------------------------------------------
(* Properties of the mock analyze route                                     *)

\* the total_score of each page of a response, in order
PageTotals(r) == [i \in 1..Len(r.pages) |-> r.pages[i].total_score]

\* C2: any two analysis requests for the same domain (POST with that URL or
\* GET with ?domain=) that were answered with an analysis return the same
\* overallScore, the same pagesAnalyzed and the same per-page total_score.
C2_ConsistentScores ==
    (/\ mock1 # NoResponse
     /\ mock2 # NoResponse
     /\ mock1.response.status = 200
     /\ mock2.response.status = 200
     /\ mock1.response.domain = mock2.response.domain)
        => /\ mock1.response.overallScore = mock2.response.overallScore
           /\ mock1.response.pagesAnalyzed = mock2.response.pagesAnalyzed
           /\ PageTotals(mock1.response) = PageTotals(mock2.response)

\* getScoreLabel: a score from ExcellentTier up is labelled 'Excellent'
ExcellentTier == 80

\* one H1, three H2s, five H3s, structured data with two schema types, a
\* canonical URL, status 200 and a modification date of today
HighScoringScenario(p) ==
    /\ p.semanticStructure.h1Count = 1
    /\ p.semanticStructure.h2Count = 3
    /\ p.semanticStructure.h3Count = 5
    /\ p.schemaValidation.hasStructuredData
    /\ Len(p.schemaValidation.schemaTypes) = 2
    /\ p.schemaValidation.canonicalUrl
    /\ p.gptbotAccessibility.statusCode = 200
    /\ p.freshness.lastModified

\* the pages of the analyses that GET requests were answered with
ReportedPages ==
    UNION {{x.response.pages[i] : i \in 1..Len(x.response.pages)} :
             x \in {y \in {mock1, mock2} :
                      /\ y # NoResponse
                      /\ y.method = "GET"
                      /\ y.response.status = 200}}

\* C16: a reported page of the high-scoring scenario has a total_score in the
\* excellent tier, and the dashboard computes an overall score in that tier
\* for it.
C16_HighScoringPage ==
    \A p \in ReportedPages :
        HighScoringScenario(p)
            => /\ p.total_score >= ExcellentTier
               /\ getOverallScore(p) >= Pt(ExcellentTier)

-----------------------------------------------------------------------------
(* Properties of the dashboard                                              *)

\* README, Scoring Dimensions: the points of the six dimensions
documentedMax == <<25, 20, 20, 15, 10, 10>>

\* README: Total: 100 points
DocumentedTotal == 100

\* C17: every category subtotal of a page record is a whole number of points
\* between 0 and the documented maximum of the category, and the overall
\* score of the page is at most 100.
C17_DimensionsTotal100 ==
    fnResult # NoResult =>
        /\ \A i \in DOMAIN Categories :
              /\ fnResult.subtotals[i] % PointUnits = 0
              /\ 0 <= fnResult.subtotals[i]
              /\ fnResult.subtotals[i] <= Pt(documentedMax[i])
        /\ fnResult.overall <= Pt(DocumentedTotal)

-----------------------------------------------------------------------------
(* Properties of the explore page                                           *)

\* the spans around the text nodes of a document
SpansOf(doc) ==
    UNION {UNION {{doc[e].nodes[n].spans[k] : k \in 1..Len(doc[e].nodes[n].spans)} :
                     n \in 1..Len(doc[e].nodes)} :
             e \in 1..Len(doc)}

\* the elements that carry the element marker
MarkedElements(doc) ==
    {e \in 1..Len(doc) : "llm-element-highlight" \in doc[e].classes}

\* C23: a highlight marks elements by its selector only when its offsets
\* located no span, and it never marks more than one element.
C23_AnchoringFallsBack ==
    explore.kind = "open" =>
        LET doc == explore.frame.doc
        IN  /\ \A e \in MarkedElements(doc) :
                  \A span \in SpansOf(doc) :
                      ~(span.index = doc[e].highlightIndex /\ span.owner = doc[e].owner)
            /\ \A e, f \in MarkedElements(doc) :
                  (doc[e].highlightIndex = doc[f].highlightIndex /\ doc[e].owner = doc[f].owner)
                     => e = f

\* C28: the text of the document in the iframe is the text of the page as it
\* loaded, whatever runs of injectOverlays it has seen.
C28_TextPreserved ==
    (explore.kind = "open" /\ explore.frame.loaded)
        => textContent(explore.frame.doc) = textContent(PageDocs[explore.frame.page])

\* C29: every marker in the document of the page the iframe displays is a
\* marker of a highlight of that page.
C29_MarkersOfDisplayedPage ==
    (explore.kind = "open" /\ explore.frame.loaded) =>
        LET doc == explore.frame.doc
        IN  /\ \A e \in MarkedElements(doc) : doc[e].owner = explore.frame.page
            /\ \A span \in SpansOf(doc) : span.owner = explore.frame.page

-----------------------------------------------------------------------------
(* Properties of the Express analyze route                                  *)

\* request r was answered with an analysis result that another request
\* built (its own result would carry its own analysisId)
ServedFromCache(r) ==
    /\ req[r].pc = "responded"
    /\ req[r].response.status = 200
    /\ "overallScore" \in DOMAIN req[r].response.body
    /\ ("analysisId" \in DOMAIN req[r].response.body
            => req[r].response.body.analysisId # r)

\* C4 as stated: two POST requests for one domain whose cache entry has not
\* run out start at most one crawl between them, whenever the second arrives.
C4_AtMostOneCrawl ==
    \A r1, r2 \in Requests :
        (/\ r1 # r2
         /\ req[r1].method = "POST" /\ req[r2].method = "POST"
         /\ req[r1].domain = req[r2].domain
         /\ req[r1].domain \notin expired)
            => req[r1].crawls + req[r2].crawls <= 1

\* C4: when the second POST request for a domain arrives after the first
\* one's background analysis has completed, the two start one crawl between
\* them, and while the cache entry has not run out the second is answered
\* from the cache.
C4_OneCrawlAfterCompletion ==
    \A r1, r2 \in Requests :
        (req[r2].method = "POST" /\ r1 \in req[r2].after)
            => /\ req[r1].crawls + req[r2].crawls <= 1
               /\ (req[r2].pc = "responded" /\ req[r2].domain \notin expired)
                    => ServedFromCache(r2)

C4_Witness ==
    \E r1, r2 \in Requests :
        /\ req[r2].method = "POST"
        /\ r1 \in req[r2].after
        /\ req[r1].crawls = 1
        /\ req[r2].domain \notin expired
        /\ ServedFromCache(r2)

\* C5: a handler (POST or GET) that finds the cache entry of its domain
\* answers with exactly the parsed entry, starts no crawl, sends no query to
\* the store and leaves the cache and the tables as they are.
C5_CacheHitFrame ==
    [][\A r \in Requests :
          (/\ req[r].pc = "received"
           /\ cache[req[r].domain] # NoRow
           /\ req'[r] # req[r])
             => /\ req'[r].pc = "responded"
                /\ req'[r].response = Response(200, JSONparse(cache[req[r].domain]))
                /\ req'[r].crawls = 0
                /\ req'[r].dbOps = 0
                /\ cache' = cache
                /\ UNCHANGED <<pages, scores, overlays, domains, pageSeq>>]_vars

C5_Witness ==
    \E r \in Requests :
        /\ req[r].method = "GET"
        /\ req[r].pc = "responded"
        /\ req[r].response.status = 200
        /\ req[r].dbOps = 0
        /\ cache[req[r].domain] # NoRow

\* C6: the list to scrape never has more than PageLimit elements, and with
\* more than PageLimit internal links found it has exactly PageLimit, the
\* seed first.
C6_DiscoveryCap ==
    \A r \in Requests :
        req[r].pc = "scraping"
            => /\ Len(req[r].urlsToScrape) <= PageLimit
               /\ Len(req[r].internalLinks) > PageLimit
                    => /\ Len(req[r].urlsToScrape) = PageLimit
                       /\ req[r].urlsToScrape[1] = req[r].url

\* the hostname of a URL string
hostnameOf(u) == newURL(u, NoHref).url.host

\* C7: every URL of the list to scrape, and every page scraped, is on the
\* hostname of the seed.
C7_SameHostOnly ==
    \A r \in Requests :
        /\ \A i \in 1..Len(req[r].urlsToScrape) :
              /\ newURL(req[r].urlsToScrape[i], NoHref).ok
              /\ hostnameOf(req[r].urlsToScrape[i]) = hostnameOf(req[r].url)
        /\ \A i \in 1..Len(req[r].scrapedPages) :
              hostnameOf(req[r].scrapedPages[i].url) = hostnameOf(req[r].url)

\* a crawl that met anchors and sitemap entries on other hostnames, read
\* the sitemap past them and scraped a page found there
C7_Witness ==
    \E r \in Requests :
        /\ req[r].returned
        /\ \E i \in 1..Len(site.anchors) :
              site.anchors[i].kind = "abs" /\ site.anchors[i].host # HostA
        /\ \E i \in 2..Len(req[r].urlsToScrape) :
              req[r].urlsToScrape[i] = AbsUrl(HostA, <<>>)
        /\ \E i \in 2..Len(req[r].scrapedPages) :
              req[r].scrapedPages[i].url = AbsUrl(HostA, <<>>)

\* C12: a POST with an empty or unparseable url is answered 400; a url with
\* or without a scheme is accepted and analyzed for its hostname; no request
\* is answered 500.
C12_SchemeOptional ==
    \A r \in Requests :
        req[r].method = "POST" =>
            LET answered == req[r].response # NoResponse
                rejected == answered /\ req[r].response.status = 400
            IN  /\ req[r].url.kind \in {"empty", "invalid"} => rejected
                /\ req[r].url.kind \in {"abs", "bare"}
                      => ~rejected /\ req[r].domain = req[r].url.host
                /\ answered => req[r].response.status # 500

\* a is the beginning of b
IsPrefix(a, b) == Len(a) <= Len(b) /\ SubSeq(b, 1, Len(a)) = a

\* C14: whatever happens while the sitemap is probed, fetched and parsed,
\* discovery ends in the page loop, never in an error, with a list to scrape
\* that starts with the seed and keeps the links found in the seed page.
C14_DiscoveryAbsorbs ==
    [][\A r \in Requests :
          (req[r].pc = "discover" /\ req'[r] # req[r])
             => /\ req'[r].pc = "scraping"
                /\ Len(req'[r].urlsToScrape) >= 1
                /\ req'[r].urlsToScrape[1] = req[r].url
                /\ IsPrefix(internalFromAnchors(Doc(site, req[r].url).anchors,
                                                req[r].url, <<>>),
                            req'[r].internalLinks)]_vars

\* a crawl goes on after an anchor that is no URL, past a sitemap whose
\* reading stopped at a <loc> that is no URL
C14_Witness ==
    \E r \in Requests :
        /\ req[r].pc = "scraping"
        /\ \E i \in 1..Len(site.anchors) : site.anchors[i].kind = "invalid"
        /\ \E i \in 1..Len(site.locs) : site.locs[i] = AbsUrl(HostA, <<"/","s","3">>)
        /\ \E i \in 1..Len(req[r].internalLinks) :
              req[r].internalLinks[i] = AbsUrl(HostA, <<"/","s","1">>)
        /\ \A i \in 1..Len(req[r].internalLinks) :
              req[r].internalLinks[i] # AbsUrl(HostA, <<"/","s","3">>)
        /\ req[r].next > 1

\* the crawl of request r ended at the seed page: scrapeWebsite threw before
\* it returned
SeedFailed(r) ==
    req[r].method = "POST" /\ req[r].pc = "failed" /\ ~req[r].returned

\* what the GET route answers for a domain that was never submitted
NeverSubmitted == Response(404, [error |-> "Domain not found"])

\* C15: an analysis whose seed page could not be fetched leaves no Domain row
\* and no cache entry of its own, and a query for the domain answered after
\* the failure differs from the answer for a domain nobody submitted.
C15_SeedFailureSurfaced ==
    [][\A r \in Requests :
          SeedFailed(r) =>
             /\ (\A q \in Requests \ {r} : req[q].crawls = 0)
                   => domainRows(req[r].domain) = <<>> /\ cache[req[r].domain] = NoRow
             /\ \A q \in Requests :
                   (/\ req[q].method = "GET"
                    /\ req[q].domain = req[r].domain
                    /\ req[q].response = NoResponse
                    /\ req'[q].response # NoResponse
                    /\ domainRows(req[r].domain) = <<>>)
                      => req'[q].response # NeverSubmitted]_vars

\* request r issues a page.goto in the page loop
Navigates(r) ==
    req[r].pc = "scraping" /\ req'[r].next = req[r].next + 1

\* C18: every navigation of the page loop is issued after a delay of at
\* least one second since the navigation before it, be that the navigation
\* to the seed or one that failed.
C18_PolitenessDelay ==
    [][\A r \in Requests : Navigates(r) => req[r].delay >= RequestDelay]_vars

\* the dimensions of a Score in the order of their declaration
ScoreDimensions ==
    <<"structure_semantics", "relevance_intent", "token_efficiency",
      "link_graph", "llm_output_likelihood">>

\* the sum of dimension k over the score rows of the pages request r analyzed
\* (the average times the number of pages)
DimensionSum(r, k) ==
    LET mine == SelectSeq(scores, LAMBDA row :
                    \E n \in 1..Len(req[r].pageIds) : req[r].pageIds[n] = row.page_id)
    IN  SumOver([n \in 1..Len(mine) |-> mine[n][ScoreDimensions[k]]], 1..Len(mine))

\* dimension j ranks before dimension k: lower average, then declaration order
RanksBefore(r, j, k) ==
    \/ DimensionSum(r, j) < DimensionSum(r, k)
    \/ DimensionSum(r, j) = DimensionSum(r, k) /\ j < k

\* the dimensions the texts of a list of improvements stand for
DimensionsOf(list) ==
    [n \in 1..Len(list) |-> CHOOSE k \in DOMAIN improvements : improvements[k] = list[n]]

\* C19: the top improvements of an analysis are three to six texts of the
\* catalogue, those of the dimensions with the lowest average sub-score over
\* the analyzed pages, lowest first, ties in declaration order.
C19_RankedImprovements ==
    \A r \in Requests :
        (req[r].method = "POST" /\ req[r].pc \in {"caching", "done"}
           /\ req[r].scrapedPages # <<>>)
            => LET list == req[r].result.topImprovements
                   dims == DimensionsOf(list)
               IN  /\ Len(list) >= 3 /\ Len(list) <= 6
                   /\ \A n \in 1..Len(list) :
                         \E k \in DOMAIN improvements : improvements[k] = list[n]
                   /\ \A m, n \in 1..Len(list) :
                         m < n => RanksBefore(r, dims[m], dims[n])
                   /\ \A k \in DOMAIN improvements :
                         (\A n \in 1..Len(list) : dims[n] # k)
                            => \A n \in 1..Len(list) : RanksBefore(r, dims[n], k)

\* C20: the list scrapeWebsite works through holds no URL twice, the seed
\* included, and no URL is returned as two pages.
C20_NoUrlTwice ==
    \A r \in Requests :
        /\ \A m, n \in 1..Len(req[r].urlsToScrape) :
              m < n => req[r].urlsToScrape[m] # req[r].urlsToScrape[n]
        /\ \A m, n \in 1..Len(req[r].scrapedPages) :
              m < n => req[r].scrapedPages[m].url # req[r].scrapedPages[n].url

\* the crawl of request r has returned: every URL of its list was tried and
\* the browser is closed
CrawlOver(r) ==
    /\ req[r].returned
    /\ req[r].next > Len(req[r].urlsToScrape)

\* every page request r extracted has a score row and an entry in pageScores
BatchScored(r) ==
    /\ Len(req[r].pageIds) = Len(req[r].scrapedPages)
    /\ Len(req[r].pageScores) = Len(req[r].scrapedPages)
    /\ \A n \in 1..Len(req[r].pageIds) :
          \E k \in 1..Len(scores) : scores[k].page_id = req[r].pageIds[n]

pageRows(d) == SelectSeq(pages, LAMBDA row : row.domain = d)

\* SELECT * FROM scores WHERE page_id = $1
scoreRows(id) == SelectSeq(scores, LAMBDA row : row.page_id = id)

\* C24: in every state of the store, a hostname with a Domain row has
\* exactly one score row for each of its page rows, and the pages_analyzed
\* of the Domain row is the number of those page rows.
C24_StoreConsistent ==
    \A k \in 1..Len(domains) :
        LET mine == pageRows(domains[k].domain)
        IN  /\ \A n \in 1..Len(mine) : Len(scoreRows(mine[n].id)) = 1
            /\ domains[k].pages_analyzed = Len(mine)

\* request r aborted after it had inserted page rows
AbortedWithPages(r) ==
    req[r].method = "POST" /\ req[r].pc = "failed" /\ req[r].pageIds # <<>>

\* the INSERT INTO pages of request r fails in this step on a row that
\* request q inserted
BlockedBy(r, q) ==
    /\ req[r].pc = "storing"
    /\ req'[r].pc = "failed"
    /\ \E k \in 1..Len(pages) :
          /\ pages[k].url = req[r].scrapedPages[req[r].i].url
          /\ \E n \in 1..Len(req[q].pageIds) : req[q].pageIds[n] = pages[k].id

\* C25: an analysis requested after an analysis of the domain was aborted
\* is never ended by a row the aborted one left behind, so that when its
\* crawl and its writes succeed it goes on to its Domain row and cache entry.
C25_FailedRunDoesNotBlock ==
    [][\A r, q \in Requests :
          (q \in req[r].afterAborted /\ AbortedWithPages(q)) => ~BlockedBy(r, q)]_vars

\* C8: a crawl with failed pages returns the pages that loaded, and the
\* analysis ends without an error in a Domain row whose pages_analyzed is
\* the number of URLs less the number of failures.
C8_PartialFailure ==
    \A r \in Requests :
        req[r].returned
            => /\ Len(req[r].scrapedPages)
                    = Len(req[r].urlsToScrape) - req[r].failures
               /\ req[r].pc # "failed"
               /\ req[r].pc = "done"
                    => \E k \in 1..Len(domains) :
                          /\ domains[k].domain = req[r].domain
                          /\ domains[k].pages_analyzed
                                = Len(req[r].urlsToScrape) - req[r].failures

\* C9: an analysis whose crawl returned no page ends without an error in a
\* Domain row with overall score 0, zero pages and no improvements.
C9_EmptyAggregation ==
    \A r \in Requests :
        (/\ req[r].returned
         /\ req[r].scrapedPages = <<>>
         /\ req[r].pc \in {"done", "failed"})
            => /\ req[r].pc = "done"
               /\ \E k \in 1..Len(domains) :
                     /\ domains[k].domain = req[r].domain
                     /\ domains[k].overall_score = 0
                     /\ domains[k].pages_analyzed = 0
                     /\ domains[k].top_improvements = <<>>

\* scrapeWebsite of request r has returned or thrown
ScrapeEnded(r) == req[r].returned \/ SeedFailed(r)

\* C27: when scrapeWebsite has returned or thrown, the browser it launched
\* is closed: after a complete crawl, after navigations of the page loop
\* that failed, and after a seed navigation that failed.
C27_BrowserClosed ==
    \A r \in Requests : ScrapeEnded(r) => req[r].browser = "closed"

\* README, Scoring Dimensions: the points of each dimension
DeclaredMaxima ==
    [structure_semantics |-> 25, relevance_intent |-> 25, token_efficiency |-> 20,
     link_graph |-> 15, llm_output_likelihood |-> 15]

\* the Scores of the pages the extractor produces from the documents
PipelineScores == {pipeline(doc).score : doc \in ExtractDocs}

\* C30: for each of the five sub-scores, a page produced by the extractor
\* is scored with the declared maximum of that sub-score: the page the
\* pipeline has just scored, or another one.
C30_MaximaAttainable ==
    fnResult # NoResult =>
        \A k \in 1..Len(ScoreDimensions) :
            \E score \in {fnResult.score} \cup PipelineScores :
                score[ScoreDimensions[k]] = DeclaredMaxima[ScoreDimensions[k]]

\* the score row and the overlay row of page id have been written
RowsWritten(id) ==
    /\ \E k \in 1..Len(scores) : scores[k].page_id = id
    /\ \E k \in 1..Len(overlays) : overlays[k].page_id = id

\* the sub-scores of the score row of page id
StoredScores(id) ==
    LET row == scoreRows(id)[1]
    IN  [structure_semantics |-> row.structure_semantics,
         relevance_intent |-> row.relevance_intent,
         token_efficiency |-> row.token_efficiency,
         link_graph |-> row.link_graph,
         llm_output_likelihood |-> row.llm_output_likelihood,
         total_score |-> row.total_score]

\* the highlights of the overlay row of page id
StoredHighlights(id) ==
    SelectSeq(overlays, LAMBDA o : o.page_id = id)[1].highlights

\* C26: a page-level read that is answered after the score row and the
\* overlay row of its page were written returns the stored sub-scores
\* (GET /api/score/:pageId) or the stored highlights (GET
\* /api/overlay/:pageId), whatever was read before.
C26_ReadsNeverStale ==
    [][(fnArgs'.reads # fnArgs.reads /\ RowsWritten(fnArgs'.pageId)) =>
          /\ fnArgs'.fn = "score" =>
                fnResult'.body.scores = StoredScores(fnArgs'.pageId)
          /\ fnArgs'.fn = "overlay" =>
                fnResult'.body.highlights = StoredHighlights(fnArgs'.pageId)]_vars

=============================================================================
